---- MODULE Spec2Model ----
(***************************************************************************)
(* Especia: the parameter table of Model<Profile> (model.h), its bounded   *)
(* constraint, and the CMA-ES optimizer front (optimizer.h).               *)
(*                                                                         *)
(* Real numbers are modelled by integers.  The numbers of a model          *)
(* definition are even, so that 0.5 * v is the exact integer v \div 2.     *)
(* Vectors are sequences; the element the code calls v[i] is v[i + 1].     *)
(***************************************************************************)
EXTENDS Integers, Sequences, FiniteSets, TLC

(***************************************************************************)
(* Bounds of the model.                                                    *)
(***************************************************************************)
\* the most parameter specifications a model definition has
MaxElems == 5
\* Profile::parameter_count, the template's arity (6, 7 or 8), scaled down
ParameterCount == 2
\* the most marks a model definition has: a mark is a cleared mask flag or
\* a reference
MaxMarks == 2

\* the section identifiers and the line identifiers the definitions draw
\* from, in the order std::map iterates them (lexicographic)
SecIds == <<"A", "B", "C">>
LineIds == <<"a", "b">>

Range(s) == {s[p] : p \in DOMAIN s}

\* v[i] and v[i] = e, for the code's zero-based index i
At(v, i) == v[i + 1]
Put(v, i, e) == [v EXCEPT ![i + 1] = e]

\* valarray::max()
SeqMax(v) == CHOOSE e \in Range(v) : \A f \in Range(v) : f <= e

\* the keys of a std::map<string, Nint_t> in iteration order
SortedKeys(map, order) == SelectSeq(order, LAMBDA id : id \in DOMAIN map)

\* the position of an id in the iteration order
Rank(order, id) == CHOOSE p \in DOMAIN order : order[p] = id

\* the ids a definition may declare next: it declares its ids in ascending
\* or in descending order
Fresh(map, order) ==
    {id \in Range(order) \ DOMAIN map :
        \/ \A e \in DOMAIN map : Rank(order, e) < Rank(order, id)
        \/ \A e \in DOMAIN map : Rank(order, e) > Rank(order, id)}

\* map[id] = index
MapPut(map, id, index) ==
    [e \in DOMAIN map \cup {id} |-> IF e = id THEN index ELSE map[e]]

VARIABLES
    text,       \* the parameter specifications of the model definition, as declared
    unclosed,   \* the definition ends in section text with no end of section mark
    pc,         \* the position of Model::get
    val, lo, up, msk, ref, ind,   \* get's local parameter table
    isc, nli,   \* get's local section tables
    sim, pim,   \* get's local id maps
    k,          \* get's count of lines of the section being read
    iter,       \* parity of the count of passes through the dereference loops' bodies
    is_fail,    \* the input stream's failbit
    this_val, this_err, this_lo, this_up, this_msk, this_ind,
    this_isc, this_nli, this_sim, this_pim,   \* the model's members
    cost_x, cost_y, cost_d,  \* the last call of cost: argument, spliced table, result
    set_x, set_z             \* the arguments of the call of set

locals == <<val, lo, up, msk, ref, ind, isc, nli, sim, pim, k>>
members == <<this_val, this_err, this_lo, this_up, this_msk, this_ind,
             this_isc, this_nli, this_sim, this_pim>>
costs == <<cost_x, cost_y, cost_d>>
sets == <<set_x, set_z>>
parameters == <<text, unclosed, pc, locals, iter, is_fail, members, costs, sets>>

VARIABLES
    config,     \* the optimizer's build configuration
    constraint, \* the constraint handed to minimize
    result,     \* the Result object of each run
    deviate,    \* the state of each optimizer's random number generator
    at,         \* the position of each run
    slot,       \* the offspring being sampled, per run
    attempts,   \* the redraws of the offspring being sampled, per run
    offspring,  \* the offspring accepted in the current generation, per run
    tested,     \* the parameter vector last tested against the constraint, per run
    verdict,    \* what is_violated returned for it
    penalty,    \* what the constraint's cost returned for it
    initial     \* the initial parameter values, local step sizes and global step size

optimizer == <<config, constraint, result, deviate, at, slot, attempts, offspring,
               tested, verdict, penalty, initial>>

VARIABLES
    gen,        \* a Mersenne Twister: its kind, its words and its index
    out,        \* the random words it has returned
    melg        \* a MELG generator: its words, its index and its cycle

generator == <<gen, out, melg>>

VARIABLES
    profile,    \* a line profile: its kind and its members
    point       \* the abscissa it was last evaluated at, and the value returned

profiles == <<profile, point>>

VARIABLES
    solver      \* the eigenproblem solver of each run and its last call

decompose == <<solver>>

VARIABLES
    args,       \* the command line arguments, the program name first
    run_at,     \* the position of Runner::run
    parsed,     \* the numbers parsed from the arguments
    cout,       \* what has been written to the standard output
    exception,  \* the exception run has thrown
    is_optimized, \* what the result's is_optimized returns
    is_underflow, \* what the result's is_underflow returns
    exit_code   \* the exit code of the program

runner == <<args, run_at, parsed, cout, exception, is_optimized, is_underflow,
           exit_code>>

\* what neither the model nor the optimizer reads or writes
VARIABLES
    reading     \* a call of read: the stream, the target vectors, the arguments

readers == <<reading>>

others == <<generator, profiles, decompose, runner, readers>>
vars == <<parameters, optimizer, others>>

(***************************************************************************)
(* The model definition.  A parameter specification is                     *)
(* "value lower upper mask [reference]".  The value and the bounds of the  *)
(* specification at table position i are fixed by i (distinct at distinct  *)
(* positions, bounds in order, reversed or equal in turn); the mask flag   *)
(* and the reference are free.                                             *)
(***************************************************************************)
ValueAt(i) == 20 * i + 10

LowerAt(i) == 20 * i + (CASE i % 3 = 0 -> 2 [] i % 3 = 1 -> 8 [] OTHER -> 4)

UpperAt(i) == 20 * i + (CASE i % 3 = 0 -> 6 [] i % 3 = 1 -> 4 [] OTHER -> 4)

Specification(i, m, r) ==
    [val |-> ValueAt(i), lo |-> LowerAt(i), up |-> UpperAt(i), msk |-> m, ref |-> r]

Marks(t) ==
    Cardinality({p \in DOMAIN t : t[p].ref # ""}) + Cardinality({p \in DOMAIN t : ~t[p].msk})

\* a default constructed Model
InitModel ==
    /\ text = <<>>
    /\ unclosed = FALSE
    /\ pc = "section"
    /\ val = <<>> /\ lo = <<>> /\ up = <<>> /\ msk = <<>> /\ ref = <<>> /\ ind = <<>>
    /\ isc = <<>> /\ nli = <<>>
    /\ sim = <<>> /\ pim = <<>>
    /\ k = 0
    /\ iter = 0
    /\ is_fail = FALSE
    /\ this_val = <<>> /\ this_err = <<>> /\ this_lo = <<>> /\ this_up = <<>>
    /\ this_msk = <<>> /\ this_ind = <<>>
    /\ this_isc = <<>> /\ this_nli = <<>>
    /\ this_sim = <<>> /\ this_pim = <<>>
    /\ cost_x = <<>> /\ cost_y = <<>> /\ cost_d = 0
    /\ set_x = <<>> /\ set_z = <<>>

\* no optimizer
NoOptimizer ==
    /\ config = <<>> /\ constraint = <<>>
    /\ result = <<>> /\ deviate = <<>>
    /\ at = <<>> /\ slot = <<>> /\ attempts = <<>> /\ offspring = <<>>
    /\ tested = <<>> /\ verdict = <<>> /\ penalty = <<>> /\ initial = <<>>

\* no generator
NoGenerator == gen = <<>> /\ out = <<>> /\ melg = <<>>

NoProfile == profile = <<>> /\ point = <<>>

NoDecompose == solver = <<>>

NoRunner ==
    /\ args = <<>> /\ run_at = "none" /\ parsed = <<>> /\ cout = <<>>
    /\ exception = "" /\ is_optimized = FALSE /\ is_underflow = FALSE
    /\ exit_code = -1

NoReader == reading = <<>>

NoOthers == NoGenerator /\ NoProfile /\ NoDecompose /\ NoRunner /\ NoReader

Init == InitModel /\ NoOptimizer /\ NoOthers

(***************************************************************************)
(* Model::get, reading.  read(ist, val, lo, up, msk, ref, n, '\n', true)   *)
(* appends n specifications to the five vectors.                           *)
(***************************************************************************)
read(specs) ==
    /\ val' = val \o [p \in DOMAIN specs |-> specs[p].val]
    /\ lo' = lo \o [p \in DOMAIN specs |-> specs[p].lo]
    /\ up' = up \o [p \in DOMAIN specs |-> specs[p].up]
    /\ msk' = msk \o [p \in DOMAIN specs |-> specs[p].msk]
    /\ ref' = ref \o [p \in DOMAIN specs |-> specs[p].ref]
    /\ text' = text \o specs

\* the section head and the resolution parameter specification
ReadSection ==
    /\ pc = "section"
    /\ Len(text) + 1 <= MaxElems
    /\ \E sid \in Fresh(sim, SecIds), m \in BOOLEAN, r \in Range(SecIds) \cup {""} :
        LET specs == <<Specification(Len(val), m, r)>> IN
        /\ Marks(text) + Marks(specs) <= MaxMarks
        /\ sim' = MapPut(sim, sid, Len(isc))
        /\ isc' = Append(isc, Len(val))
        /\ read(specs)
    /\ k' = 0
    /\ pc' = "line"
    /\ UNCHANGED <<unclosed, ind, nli, pim, iter, is_fail, members, costs, sets, optimizer, others>>

\* one profile function parameter specification
ReadLine ==
    /\ pc = "line"
    /\ Len(text) + ParameterCount <= MaxElems
    /\ \E pid \in Fresh(pim, LineIds),
          m \in [1..ParameterCount -> BOOLEAN],
          r \in [1..ParameterCount -> Range(LineIds) \cup {""}] :
        LET specs == [p \in 1..ParameterCount |-> Specification(Len(val) + p - 1, m[p], r[p])] IN
        /\ Marks(text) + Marks(specs) <= MaxMarks
        /\ pim' = MapPut(pim, pid, Len(val))
        /\ read(specs)
    /\ k' = k + 1
    /\ UNCHANGED <<unclosed, pc, ind, isc, nli, sim, iter, is_fail, members, costs, sets, optimizer, others>>

\* a mutation of the end of section: one line too many is counted
EndSection_one_more ==
    /\ pc = "line"
    /\ nli' = Append(nli, k + 1)
    /\ pc' = "section"
    /\ UNCHANGED <<text, unclosed, val, lo, up, msk, ref, ind, isc, sim, pim, k,
                   iter, is_fail, members, costs, sets, optimizer, others>>
\* the end of section mark
EndSection ==
    /\ pc = "line"
    /\ nli' = Append(nli, k)
    /\ pc' = "section"
    /\ UNCHANGED <<text, unclosed, val, lo, up, msk, ref, ind, isc, sim, pim, k,
                   iter, is_fail, members, costs, sets, optimizer, others>>

\* the end of the model definition: what getline reads last, up to the end
\* of the stream and not to an end of section mark, is not looked at
EndOfInput ==
    /\ pc = "section"
    /\ Len(isc) >= 1
    /\ unclosed' \in BOOLEAN
    /\ pc' = "index"
    /\ UNCHANGED <<text, locals, iter, is_fail, members, costs, sets, optimizer, others>>

(***************************************************************************)
(* Model::get, indexing the independent parameters.                        *)
(***************************************************************************)
\* msk[i] and ref[i].empty()
Independent(i) == At(msk, i) /\ At(ref, i) = ""

IndexParameters ==
    /\ pc = "index"
    /\ ind' = [p \in DOMAIN msk |->
                 IF Independent(p - 1)
                 THEN Cardinality({q \in 0..(p - 2) : Independent(q)})
                 ELSE 0]
    /\ lo' = [p \in DOMAIN msk |->
                 IF Independent(p - 1)
                 THEN (IF lo[p] > up[p] THEN up[p] ELSE lo[p])
                 ELSE 0]
    /\ up' = [p \in DOMAIN msk |->
                 IF Independent(p - 1)
                 THEN (IF lo[p] > up[p] THEN lo[p] ELSE up[p])
                 ELSE 0]
    /\ pc' = "resolution"
    /\ UNCHANGED <<text, unclosed, val, msk, ref, isc, nli, sim, pim, k, iter, is_fail, members, costs, sets, optimizer, others>>

(***************************************************************************)
(* Model::get, dereferencing.  Each action is one pass through the body of *)
(* a while (!ref[j].empty()) loop.  The for loops go through the map in    *)
(* the order of the ids and leave an element only with its reference       *)
(* empty, so the element a loop is at is the first one in that order whose *)
(* reference is not empty.                                                 *)
(***************************************************************************)
\* the indices of the resolution parameters, in the order of the section ids
ResolutionOrder ==
    LET keys == SortedKeys(sim, SecIds) IN
    [p \in DOMAIN keys |-> At(isc, sim[keys[p]])]

\* the indices and offsets of the line parameters, in the order of the line
\* ids and, within a line, of the offsets j = 0 .. parameter_count - 1
LineOrder ==
    LET keys == SortedKeys(pim, LineIds) IN
    [p \in 1..(Len(keys) * ParameterCount) |->
        [index |-> pim[keys[((p - 1) \div ParameterCount) + 1]] + ((p - 1) % ParameterCount),
         offset |-> (p - 1) % ParameterCount]]

Referring(order) == {p \in DOMAIN order : At(ref, order[p]) # ""}

First(S) == CHOOSE p \in S : \A q \in S : p <= q

\* a mutation of the error return: a member is assigned before it
Fail_assigned ==
    /\ is_fail' = TRUE
    /\ pc' = "failed"
    /\ this_val' = val
    /\ UNCHANGED <<text, unclosed, locals, iter, this_err, this_lo, this_up, this_msk,
                   this_ind, this_isc, this_nli, this_sim, this_pim, costs, sets,
                   optimizer, others>>
\* an error return
Fail ==
    /\ is_fail' = TRUE
    /\ pc' = "failed"
    /\ UNCHANGED <<text, unclosed, locals, iter, members, costs, sets, optimizer, others>>

\* a mutation of the dereference step: the index is not copied
DereferenceKeepingIndex(j, t) ==
    /\ val' = IF At(ref, t) = "" THEN Put(val, j, At(val, t)) ELSE val
    /\ lo' = IF At(ref, t) = "" THEN Put(lo, j, At(lo, t)) ELSE lo
    /\ up' = IF At(ref, t) = "" THEN Put(up, j, At(up, t)) ELSE up
    /\ msk' = IF At(ref, t) = "" THEN Put(msk, j, At(msk, t)) ELSE msk
    /\ ref' = Put(ref, j, At(ref, t))
    /\ iter' = 1 - iter
    /\ UNCHANGED <<text, unclosed, pc, ind, isc, nli, sim, pim, k, is_fail, members, costs, sets, optimizer, others>>

\* if (ref[t].empty()) { val[j] = val[t]; ... ind[j] = ind[t]; } ref[j] = ref[t];
Dereference(j, t) ==
    /\ val' = IF At(ref, t) = "" THEN Put(val, j, At(val, t)) ELSE val
    /\ lo' = IF At(ref, t) = "" THEN Put(lo, j, At(lo, t)) ELSE lo
    /\ up' = IF At(ref, t) = "" THEN Put(up, j, At(up, t)) ELSE up
    /\ msk' = IF At(ref, t) = "" THEN Put(msk, j, At(msk, t)) ELSE msk
    /\ ind' = IF At(ref, t) = "" THEN Put(ind, j, At(ind, t)) ELSE ind
    /\ ref' = Put(ref, j, At(ref, t))
    /\ iter' = 1 - iter
    /\ UNCHANGED <<text, unclosed, pc, isc, nli, sim, pim, k, is_fail, members, costs, sets, optimizer, others>>

\* an error return of the section loop before a section is read: no begin
\* of section mark, a section head that cannot be parsed, a section
\* identifier seen before, a data file not found or not read, or a
\* resolution parameter specification that cannot be read
SectionError == pc = "section" /\ Fail

\* an error return of the section loop within a section: a line identifier
\* seen before, or line parameter specifications that cannot be read
LineError == pc = "line" /\ Fail

\* the resolution parameter references
DereferenceResolution ==
    /\ pc = "resolution"
    /\ LET order == ResolutionOrder IN
       IF Referring(order) = {}
       THEN /\ pc' = "line parameter"
            /\ UNCHANGED <<text, unclosed, locals, iter, is_fail, members, costs, sets, optimizer, others>>
       ELSE LET j == order[First(Referring(order))] IN
            IF At(ref, j) \in DOMAIN sim
            THEN LET t == At(isc, sim[At(ref, j)]) IN
                 IF j # t THEN Dereference(j, t) ELSE Fail
            ELSE Fail

\* the line parameter references
DereferenceLine ==
    /\ pc = "line parameter"
    /\ LET order == [p \in DOMAIN LineOrder |-> LineOrder[p].index] IN
       IF Referring(order) = {}
       THEN /\ pc' = "assign"
            /\ UNCHANGED <<text, unclosed, locals, iter, is_fail, members, costs, sets, optimizer, others>>
       ELSE LET p == First(Referring(order))
                j == order[p] IN
            IF At(ref, j) \in DOMAIN pim
            THEN LET t == pim[At(ref, j)] + LineOrder[p].offset IN
                 IF j # t THEN Dereference(j, t) ELSE Fail
            ELSE Fail

(***************************************************************************)
(* Model::get, the success path: the members are assigned.                 *)
(***************************************************************************)
Assign ==
    /\ pc = "assign"
    /\ this_isc' = isc /\ this_nli' = nli
    /\ this_val' = val
    /\ this_err' = [p \in DOMAIN val |-> 0]
    /\ this_lo' = lo /\ this_up' = up
    /\ this_msk' = msk /\ this_ind' = ind
    /\ this_sim' = sim /\ this_pim' = pim
    /\ is_fail' = FALSE
    /\ pc' = "done"
    /\ UNCHANGED <<text, unclosed, locals, iter, costs, sets, optimizer, others>>

(***************************************************************************)
(* The model's operations on the assigned parameter table.                 *)
(***************************************************************************)
\* ind.max() + 1
get_parameter_count == SeqMax(this_ind) + 1

\* std::valarray<Real_t> x(n): n zeros
Zeros(n) == [p \in 1..n |-> 0]

\* for (i = 0, j = 0; i < msk.size(); ++i) if (msk[i] and ind[i] == j) x[j++] = f[i]
RECURSIVE Collect(_, _, _, _)
Collect(f, i, j, x) ==
    IF i >= Len(this_msk) THEN x
    ELSE IF At(this_msk, i) /\ At(this_ind, i) = j
         THEN Collect(f, i + 1, j + 1, Put(x, j, At(f, i)))
         ELSE Collect(f, i + 1, j, x)

get_initial_parameter_values ==
    Collect([p \in DOMAIN this_lo |-> (this_lo[p] + this_up[p]) \div 2],
            0, 0, Zeros(get_parameter_count))

get_initial_local_step_sizes ==
    Collect([p \in DOMAIN this_lo |-> (this_up[p] - this_lo[p]) \div 2],
            0, 0, Zeros(get_parameter_count))

\* Bounded_Constraint(&a[0], &b[0], get_parameter_count())
get_constraint ==
    [a |-> Collect(this_lo, 0, 0, Zeros(get_parameter_count)),
     b |-> Collect(this_up, 0, 0, Zeros(get_parameter_count))]

\* the cost of section s for the parameter table y: a stand-in for
\* Section::cost, the sum of the resolution and the line parameters it is
\* handed, &y[isc[s] + 1] and y[isc[s]]
RECURSIVE Sum(_, _, _)
Sum(f, from, to) == IF from > to THEN 0 ELSE At(f, from) + Sum(f, from + 1, to)

SectionCost(y, s) ==
    Sum(y, At(this_isc, s), At(this_isc, s) + At(this_nli, s) * ParameterCount)

\* a mutation of the splice: every free element is given x[0]
SpliceFirst(x) ==
    [p \in DOMAIN this_val |-> IF this_msk[p] THEN At(x, 0) ELSE this_val[p]]

\* valarray<Real_t> y = val; if (msk[i]) y[i] = x[ind[i]]
Splice(x) ==
    [p \in DOMAIN this_val |->
        IF this_msk[p] THEN At(x, this_ind[p]) ELSE this_val[p]]

RECURSIVE SumOfSections(_, _)
SumOfSections(y, s) ==
    IF s >= Len(this_isc) THEN 0 ELSE SectionCost(y, s) + SumOfSections(y, s + 1)

cost(x) == SumOfSections(Splice(x), 0)

\* the parameter vectors the model is evaluated at
Arguments(n) == {[p \in 1..n |-> base + p] : base \in {100, 200}}

Cost ==
    /\ pc = "done"
    /\ \E x \in Arguments(get_parameter_count) :
        /\ cost_x' = x
        /\ cost_y' = Splice(x)
        /\ cost_d' = cost(x)
    /\ UNCHANGED <<text, unclosed, pc, locals, iter, is_fail, members, sets, optimizer, others>>

\* a mutation of set's uncertainties: the mask flag is not tested
set_err_unmasked(z) == [p \in DOMAIN this_err |-> At(z, this_ind[p])]

\* if (msk[i]) val[i] = x[ind[i]]
set_val(x) ==
    [p \in DOMAIN this_val |-> IF this_msk[p] THEN At(x, this_ind[p]) ELSE this_val[p]]

\* if (msk[i]) err[i] = z[ind[i]]; else err[i] = 0.0
set_err(z) ==
    [p \in DOMAIN this_err |-> IF this_msk[p] THEN At(z, this_ind[p]) ELSE 0]

\* the uncertainties handed to set
Uncertainties(n) == {[p \in 1..n |-> 300 + p]}

\* Model::set(x, z)
Set ==
    /\ pc = "done"
    /\ \E x \in Arguments(get_parameter_count), z \in Uncertainties(get_parameter_count) :
        /\ set_x' = x
        /\ set_z' = z
        /\ this_val' = set_val(x)
        /\ this_err' = set_err(z)
    /\ pc' = "set"
    /\ UNCHANGED <<text, unclosed, locals, iter, is_fail, this_lo, this_up, this_msk, this_ind,
                   this_isc, this_nli, this_sim, this_pim, costs, optimizer, others>>

Next ==
    \/ ReadSection
    \/ ReadLine
    \/ EndSection
    \/ EndOfInput
    \/ SectionError
    \/ LineError
    \/ IndexParameters
    \/ DereferenceResolution
    \/ DereferenceLine
    \/ Assign
    \/ Cost
    \/ Set

Spec == Init /\ [][Next]_vars

\* get and the model's operations are sequential code: a step that can be
\* taken is taken
FairSpec == Spec /\ WF_vars(Next)

(***************************************************************************)
(* The optimizer (optimizer.h).  Two optimizers built from the same        *)
(* configuration each carry out one run of minimize on the same problem,   *)
(* side by side.  The generation loop is reduced to what the statements    *)
(* below are about: sampling under the constraint, ranking, the generation *)
(* counter and the termination flags.  The rotation matrix is the identity *)
(* and the covariance matrix is diagonal; one parent is selected.          *)
(***************************************************************************)
\* the greatest stop generation a configuration has
MaxStop == 2
\* the greatest random seed a configuration has
MaxSeed == 3
\* the attempts a slot has to sample an offspring that is not violating
MaxAttempts == 2
\* the greatest half-width of a bounded constraint
MaxWidth == 2
\* the greatest initial global step size
MaxStep == 2

Runs == {1, 2}

\* a mutation of get_stop_generation: one generation more
get_stop_generation_late == config.stop_generation + 1

\* Optimizer::Builder: the getters of the configuration
get_problem_dimension == config.n
get_parent_number == config.parent_number
get_population_size == config.population_size
get_accuracy_goal == config.accuracy_goal
get_random_seed == config.random_seed
get_stop_generation == config.stop_generation

\* the build configurations
Configs ==
    [n : {2}, parent_number : {1}, population_size : {2}, accuracy_goal : {1, 2},
     stop_generation : 0..MaxStop, random_seed : 0..MaxSeed]

\* Bounded_Constraint(lower_bounds, upper_bounds, n), and No_Constraint
Bounded_Constraint(lower_bounds, upper_bounds, n) ==
    [bounded |-> TRUE,
     a |-> [p \in 1..n |-> lower_bounds[p]],
     b |-> [p \in 1..n |-> upper_bounds[p]]]

No_Constraint == [bounded |-> FALSE, a |-> <<>>, b |-> <<>>]

\* the test of is_violated's loop body, with a mutation of it that excludes
\* the bounds and one that forgets the upper bound
ExclusiveOutside(c, v, i) == At(v, i) <= At(c.a, i) \/ At(v, i) >= At(c.b, i)

BelowOnly(c, v, i) == At(v, i) < At(c.a, i)

Outside(c, v, i) == At(v, i) < At(c.a, i) \/ At(v, i) > At(c.b, i)

RECURSIVE ViolatedFrom(_, _, _, _)
ViolatedFrom(c, v, n, i) ==
    IF i >= n THEN FALSE
    ELSE IF Outside(c, v, i) THEN TRUE
    ELSE ViolatedFrom(c, v, n, i + 1)

is_violated(c, v, n) == IF c.bounded THEN ViolatedFrom(c, v, n, 0) ELSE FALSE

\* the constraint's cost
constraint_cost(c, v, n) == 0

\* the objective function: the sphere
sphere(v) == Sum([p \in DOMAIN v |-> v[p] * v[p]], 0, Len(v) - 1)

\* the problems: the sphere without constraint, and the sphere in a box
\* around the origin, started as Runner::run starts a model: at the
\* midpoints, with the half-widths as local step sizes
Problems ==
    {[constraint |-> No_Constraint, x |-> <<2, 2>>, d |-> <<1, 1>>]}
    \cup {[constraint |-> Bounded_Constraint(<<-w, -w>>, <<w, w>>, 2),
           x |-> <<0, 0>>, d |-> <<w, w>>] : w \in 1..MaxWidth}

\* Result(n, x, d, s)
Result(n, x, d, s) ==
    [x |-> x, d |-> d, s |-> s, z |-> Zeros(n), y |-> 0, g |-> 0,
     C |-> [p \in 1..n |-> d[p] * d[p]],
     optimized |-> FALSE, underflow |-> FALSE]

\* the random number generator: seeding, the next state, and the deviate a
\* state yields (never zero)
Seeded(seed) == seed % 16
Twist(state) == (5 * state + 3) % 16
Deviate(state) == <<-2, -1, 1, 2>>[(state \div 4) + 1]

\* n deviates drawn in turn: the deviates and the generator's state after
RECURSIVE Draw(_, _)
Draw(state, n) ==
    IF n = 0 THEN [z |-> <<>>, state |-> state]
    ELSE LET rest == Draw(state, n - 1) IN
         [z |-> Append(rest.z, Deviate(Twist(rest.state))), state |-> Twist(rest.state)]

\* the generator a run draws from: the member of its own optimizer; with a
\* mutation of it that lets all runs share one generator
SharedGenerator(r) == CHOOSE q \in Runs : \A p \in Runs : q <= p

Generator(r) == r

\* two optimizers built from one configuration, about to minimize
InitOptimizer ==
    /\ config \in Configs
    /\ \E problem \in Problems, s \in 1..MaxStep :
        /\ constraint = problem.constraint
        /\ initial = [x |-> problem.x, d |-> problem.d, s |-> s]
    /\ result = [r \in Runs |-> Result(0, <<>>, <<>>, 0)]
    /\ deviate = [r \in Runs |-> Seeded(get_random_seed)]
    /\ at = [r \in Runs |-> "start"]
    /\ slot = [r \in Runs |-> 0]
    /\ attempts = [r \in Runs |-> 0]
    /\ offspring = [r \in Runs |-> <<>>]
    /\ tested = [r \in Runs |-> <<>>]
    /\ verdict = [r \in Runs |-> FALSE]
    /\ penalty = [r \in Runs |-> 0]

InitOpt == InitModel /\ InitOptimizer /\ NoOthers

\* Optimizer::optimize: the result is constructed
Minimize(r) ==
    /\ at[r] = "start"
    /\ result' = [result EXCEPT ![r] =
                      Result(get_problem_dimension, initial.x, initial.d, initial.s)]
    /\ at' = [at EXCEPT ![r] = "loop"]
    /\ UNCHANGED <<parameters, others, config, constraint, initial, deviate, slot, attempts,
                   offspring, tested, verdict, penalty>>

\* the head of the generation loop
Generation(r) ==
    /\ at[r] = "loop"
    /\ IF result[r].g < get_stop_generation
       THEN /\ at' = [at EXCEPT ![r] = "sample"]
            /\ slot' = [slot EXCEPT ![r] = 0]
            /\ attempts' = [attempts EXCEPT ![r] = 0]
            /\ offspring' = [offspring EXCEPT ![r] = <<>>]
       ELSE /\ at' = [at EXCEPT ![r] = "exit"]
            /\ UNCHANGED <<slot, attempts, offspring>>
    /\ UNCHANGED <<parameters, others, config, constraint, initial, result, deviate,
                   tested, verdict, penalty>>

\* an offspring is sampled for the slot and tested against the constraint:
\* it is accepted, or redrawn, or the slot is given up
Sample(r) ==
    /\ at[r] = "sample"
    /\ LET n == get_problem_dimension
           drawn == Draw(deviate[Generator(r)], n)
           u == [p \in 1..n |-> result[r].x[p] + result[r].s * result[r].d[p] * drawn.z[p]]
           violated == is_violated(constraint, u, n)
           filled == ~violated \/ attempts[r] + 1 >= MaxAttempts
       IN  /\ deviate' = [deviate EXCEPT ![Generator(r)] = drawn.state]
           /\ tested' = [tested EXCEPT ![r] = u]
           /\ verdict' = [verdict EXCEPT ![r] = violated]
           /\ penalty' = [penalty EXCEPT ![r] = constraint_cost(constraint, u, n)]
           /\ offspring' = [offspring EXCEPT ![r] =
                 IF violated THEN @
                 ELSE Append(@, [x |-> u, z |-> drawn.z,
                                 y |-> sphere(u) + constraint_cost(constraint, u, n)])]
           /\ slot' = [slot EXCEPT ![r] = IF filled THEN @ + 1 ELSE @]
           /\ attempts' = [attempts EXCEPT ![r] = IF filled THEN 0 ELSE @ + 1]
           /\ at' = [at EXCEPT ![r] =
                 IF filled /\ slot[r] + 1 >= get_population_size THEN "select" ELSE "sample"]
    /\ UNCHANGED <<parameters, others, config, constraint, initial, result>>

\* the rank of the accepted offspring: the first of the fittest
Fittest(population) ==
    CHOOSE p \in DOMAIN population :
        /\ \A q \in DOMAIN population : population[p].y <= population[q].y
        /\ \A q \in DOMAIN population : population[q].y = population[p].y => p <= q

Abs(e) == IF e < 0 THEN -e ELSE e

\* the generation is completed: no offspring was accepted (underflow), or
\* the fittest offspring becomes the mean, the covariance and the global
\* step size are updated, the generation is counted, and the run is tested
\* for being optimized, then for underflow
Select(r) ==
    /\ at[r] = "select"
    /\ IF offspring[r] = <<>>
       THEN /\ result' = [result EXCEPT ![r].underflow = TRUE]
            /\ at' = [at EXCEPT ![r] = "exit"]
       ELSE LET old == result[r]
                best == offspring[r][Fittest(offspring[r])]
                s == IF best.y < sphere(old.x) THEN old.s ELSE old.s \div 2
                C == [p \in DOMAIN old.C |-> old.C[p] + (best.x[p] - old.x[p]) * (best.x[p] - old.x[p])]
                optimized == /\ Abs(best.y - old.y) < get_accuracy_goal
                             /\ s * SeqMax(old.d) < get_accuracy_goal * (1 + Abs(best.y))
                underflow == ~optimized /\ \E p \in DOMAIN old.d : s * old.d[p] = 0
            IN  /\ result' = [result EXCEPT ![r] =
                      [old EXCEPT !.x = best.x, !.y = best.y, !.s = s, !.C = C,
                                  !.g = old.g + 1,
                                  !.optimized = optimized, !.underflow = underflow]]
                /\ at' = [at EXCEPT ![r] = IF optimized \/ underflow THEN "exit" ELSE "loop"]
    /\ UNCHANGED <<parameters, others, config, constraint, initial, deviate, slot, attempts,
                   offspring, tested, verdict, penalty>>

\* postopti: the uncertainties of the optimized parameter values
postopti(res) == [res EXCEPT !.z = [p \in DOMAIN res.d |-> res.s * res.d[p]]]

\* Optimizer::optimize: after the loop
Return(r) ==
    /\ at[r] = "exit"
    /\ result' = [result EXCEPT ![r] = IF @.optimized THEN postopti(@) ELSE @]
    /\ at' = [at EXCEPT ![r] = "returned"]
    /\ UNCHANGED <<parameters, others, config, constraint, initial, deviate, slot, attempts,
                   offspring, tested, verdict, penalty>>

NextOpt ==
    \/ \E r \in Runs : Minimize(r)
    \/ \E r \in Runs : Generation(r)
    \/ \E r \in Runs : Sample(r)
    \/ \E r \in Runs : Select(r)
    \/ \E r \in Runs : Return(r)

SpecOpt == InitOpt /\ [][NextOpt]_vars

\* a run is sequential code: a step that can be taken is taken
FairSpecOpt == SpecOpt /\ WF_vars(NextOpt)

(***************************************************************************)
(* The Mersenne Twister, as especia::mersenne_twister (mtwister.h) and as  *)
(* especia::Mersenne_Twister (random.h) implement it.  The word width and  *)
(* the other template parameters of the predefined types are scaled down:  *)
(* a word has 8 bits where the types of the code have 32, and the seed     *)
(* type word64 has 16.  All arithmetic is taken modulo 2^w as the code's   *)
(* masks take it.                                                          *)
(***************************************************************************)
\* the greatest number of random words drawn from a generator
MaxDraws == 9

RECURSIVE Pow2(_)
Pow2(e) == IF e = 0 THEN 1 ELSE 2 * Pow2(e - 1)

\* numeric_limits<word>::max() >> (numeric_limits<word>::digits - bits)
Mask(bits) == Pow2(bits) - 1

\* a ^ b, a & b and a | b on words
RECURSIVE BitXor(_, _)
BitXor(a, b) ==
    IF a = 0 THEN b ELSE IF b = 0 THEN a
    ELSE (((a % 2) + (b % 2)) % 2) + 2 * BitXor(a \div 2, b \div 2)

RECURSIVE BitAnd(_, _)
BitAnd(a, b) ==
    IF a = 0 \/ b = 0 THEN 0
    ELSE ((a % 2) * (b % 2)) + 2 * BitAnd(a \div 2, b \div 2)

BitOr(a, b) == a + b - BitAnd(a, b)

\* a >> e, and a << e within a word of the given width
ShiftRight(a, e) == a \div Pow2(e)
ShiftLeft(a, e, width) == (a * Pow2(e)) % Pow2(width)

\* the predefined types, scaled down: mt19937 has r = w - 1, mt11213 has
\* r < w - 1
Mt19937 ==
    [w |-> 8, n |-> 4, m |-> 2, r |-> 7, a |-> 184, u |-> 3, d |-> 255,
     s |-> 2, b |-> 172, t |-> 3, c |-> 224, l |-> 5,
     mult1 |-> 101, mult2 |-> 13, mult3 |-> 101]

Mt11213 ==
    [w |-> 8, n |-> 5, m |-> 2, r |-> 5, a |-> 229, u |-> 3, d |-> 255,
     s |-> 2, b |-> 100, t |-> 3, c |-> 208, l |-> 4,
     mult1 |-> 101, mult2 |-> 13, mult3 |-> 101]

Types == {Mt19937, Mt11213}

\* the implementations
Implementations == {"mtwister", "random"}

\* the seeds a generator is constructed from: words of the seed type, the
\* greatest of them wider than a word of the generator
GeneratorSeeds == {e * 100 : e \in 0..MaxSeed}

\* mtwister.h, reset(seed, multiplier): the words after k steps
RECURSIVE mtwister_reset(_, _, _)
mtwister_reset(T, seed, kk) ==
    IF kk = 0 THEN <<seed % Pow2(T.w)>>
    ELSE LET words == mtwister_reset(T, seed, kk - 1)
             last == At(words, kk - 1)
         IN  Append(words,
                 (T.mult1 * BitXor(last, ShiftRight(last, T.r - 1)) + kk) % Pow2(T.w))

\* random.h, reset(seed): the words after k steps
RECURSIVE random_reset(_, _, _)
random_reset(T, seed, kk) ==
    IF kk = 0 THEN <<seed % Pow2(T.w)>>
    ELSE LET state == random_reset(T, seed, kk - 1)
             last == At(state, kk - 1)
         IN  Append(state,
                 (BitXor(last, ShiftRight(last, T.w - 2)) * T.mult1 + kk) % Pow2(T.w))

\* random.h, reset(seed_count, seeds): the first loop, k steps left
RECURSIVE random_mix(_, _, _, _, _, _)
random_mix(T, state, seeds, i, j, kk) ==
    IF kk = 0 THEN [state |-> state, i |-> i]
    ELSE LET prev == At(state, i - 1)
             word == (BitXor(At(state, i),
                             (BitXor(prev, ShiftRight(prev, T.w - 2)) * T.mult2) % Pow2(T.w))
                      + At(seeds, j) + j) % Pow2(T.w)
             put == Put(state, i, word)
             wrapped == i + 1 >= T.n
         IN  random_mix(T,
                 IF wrapped THEN Put(put, 0, At(put, T.n - 1)) ELSE put,
                 seeds,
                 IF wrapped THEN 1 ELSE i + 1,
                 IF j + 1 >= Len(seeds) THEN 0 ELSE j + 1,
                 kk - 1)

\* random.h, reset(seed_count, seeds): the second loop, k steps left
RECURSIVE random_unmix(_, _, _, _)
random_unmix(T, state, i, kk) ==
    IF kk = 0 THEN state
    ELSE LET prev == At(state, i - 1)
             word == (BitXor(At(state, i),
                             (BitXor(prev, ShiftRight(prev, T.w - 2)) * T.mult3) % Pow2(T.w))
                      - i) % Pow2(T.w)
             put == Put(state, i, word)
             wrapped == i + 1 >= T.n
         IN  random_unmix(T,
                 IF wrapped THEN Put(put, 0, At(put, T.n - 1)) ELSE put,
                 IF wrapped THEN 1 ELSE i + 1,
                 kk - 1)

\* the seed of the call of reset(seed) in reset(seed_count, seeds)
ArraySeed == 19650218

\* random.h, reset(seed_count, seeds)
random_reset_array(T, seeds) ==
    LET first == random_reset(T, ArraySeed, T.n - 1)
        count == IF T.n > Len(seeds) THEN T.n ELSE Len(seeds)
        mixed == random_mix(T, first, seeds, 1, 0, count)
        unmixed == random_unmix(T, mixed.state, mixed.i, T.n - 1)
    IN  Put(unmixed, 0, Pow2(T.w - 1))

\* random.h, Mersenne_Twister(seed): the low and the high half of the seed
random_seeds(T, seed) == <<seed % Pow2(T.w), seed - (seed % Pow2(T.w))>>

\* twist(i, j, k)
twist(T, words, i, j, kk) ==
    LET upper == Mask(T.w) - Mask(T.r)
        lower == Mask(T.r)
        mixed == BitXor(At(words, i),
                     ShiftRight(BitOr(BitAnd(At(words, j), upper), BitAnd(At(words, kk), lower)), 1))
    IN  Put(words, j, IF At(words, kk) % 2 = 1 THEN BitXor(mixed, T.a) ELSE mixed)

\* for (k = from; k < to; ++k) twist(k + shift, k, k + 1)
RECURSIVE twist_loop(_, _, _, _, _)
twist_loop(T, words, from, to, shift) ==
    IF from >= to THEN words
    ELSE twist_loop(T, twist(T, words, from + shift, from, from + 1), from + 1, to, shift)

\* rand(): the words are generated anew when all of them are spent
regenerate(T, words) ==
    LET first == twist_loop(T, words, 0, T.n - T.m, T.m)
        second == twist_loop(T, first, T.n - T.m, T.n - 1, T.m - T.n)
    IN  twist(T, second, T.m - 1, T.n - 1, 0)

\* rand(): the calls twist(i, j, k) of one regeneration, in their order
twist_calls(from, to, shift) ==
    [p \in 1..(to - from) |-> <<from + p - 1 + shift, from + p - 1, from + p>>]

regenerate_calls(T) ==
    twist_calls(0, T.n - T.m, T.m)
    \o twist_calls(T.n - T.m, T.n - 1, T.m - T.n)
    \o <<<<T.m - 1, T.n - 1, 0>>>>

\* rand(): the tempering of mtwister.h and of random.h
mtwister_temper(T, word) ==
    LET y1 == IF T.u > 0 THEN BitXor(word, ShiftRight(word, T.u)) ELSE word
        y2 == BitXor(y1, BitAnd(ShiftLeft(y1, T.s, T.w), T.b))
        y3 == BitXor(y2, BitAnd(ShiftLeft(y2, T.t, T.w), T.c))
    IN  BitXor(y3, ShiftRight(y3, T.l))

\* a mutation of the tempering: the shifted word is not masked
random_temper_unmasked(T, word) ==
    LET y1 == BitXor(word, BitAnd(ShiftRight(word, T.u), T.d))
        y2 == BitXor(y1, y1 * Pow2(T.s))
        y3 == BitXor(y2, BitAnd(ShiftLeft(y2, T.t, T.w), T.c))
    IN  BitXor(y3, ShiftRight(y3, T.l))
random_temper(T, word) ==
    LET y1 == BitXor(word, BitAnd(ShiftRight(word, T.u), T.d))
        y2 == BitXor(y1, BitAnd(ShiftLeft(y1, T.s, T.w), T.b))
        y3 == BitXor(y2, BitAnd(ShiftLeft(y2, T.t, T.w), T.c))
    IN  BitXor(y3, ShiftRight(y3, T.l))

\* a generator of a predefined type, not yet constructed
InitGenerator ==
    /\ gen \in [impl : Implementations, type : Types, seed : {0}, words : {<<>>}, i : {0}]
    /\ out = <<>>
    /\ melg = <<>>

InitGen == InitModel /\ NoOptimizer /\ InitGenerator /\ NoProfile /\ NoDecompose /\ NoRunner /\ NoReader

\* the constructor from a single seed
Construct ==
    /\ gen.words = <<>>
    /\ \E seed \in GeneratorSeeds :
        gen' = [gen EXCEPT
                   !.seed = seed,
                   !.words = IF gen.impl = "mtwister"
                             THEN mtwister_reset(gen.type, seed, gen.type.n - 1)
                             ELSE random_reset_array(gen.type, random_seeds(gen.type, seed)),
                   !.i = gen.type.n]
    /\ UNCHANGED <<parameters, optimizer, readers, profiles, decompose, runner, out, melg>>

\* rand()
Rand ==
    /\ gen.words # <<>>
    /\ Len(out) < MaxDraws
    /\ LET T == gen.type
           words == IF gen.i = T.n THEN regenerate(T, gen.words) ELSE gen.words
           i == IF gen.i = T.n THEN 0 ELSE gen.i
           y == At(words, i)
       IN  /\ gen' = [gen EXCEPT !.words = words, !.i = i + 1]
           /\ out' = Append(out, IF gen.impl = "mtwister" THEN mtwister_temper(T, y)
                                 ELSE random_temper(T, y))
    /\ UNCHANGED <<parameters, optimizer, readers, profiles, decompose, runner, melg>>

NextGen ==
    \/ Construct
    \/ Rand

SpecGen == InitGen /\ [][NextGen]_vars

(***************************************************************************)
(* The MELG generator of Harase and Kimoto: n words and a lung, the word   *)
(* n of the state.  A word of the scaled type has 16 bits where the type   *)
(* of the code has 64; the masks, the shifts and the multipliers of the    *)
(* code are scaled with it.                                                *)
(***************************************************************************)
\* the greatest number of calls of rand of a MELG generator
MaxCalls == 27

\* the predefined type, scaled down, with the masks and the shifts of rock,
\* roll and twist
Melg19937_64 ==
    [w |-> 16, n |-> 9, m |-> 5, l |-> 3,
     mult1 |-> 45, mult2 |-> 133, mult3 |-> 253,
     upper |-> 65408, lower |-> 127,
     a |-> 23602, lung_shift |-> 6,
     twist_right |-> 8, twist_left |-> 4, twist_mask |-> 27373]

\* Melg(seed): the low and the high half of the seed
melg_seeds(T, seed) ==
    LET word == seed % Pow2(T.w)
    IN  <<word % Pow2(T.w \div 2), word - (word % Pow2(T.w \div 2))>>

\* reset(seed_count, seeds)
melg_reset(T, seeds) ==
    LET first == random_reset(T, ArraySeed, T.n)
        count == IF T.n > Len(seeds) THEN T.n ELSE Len(seeds)
        mixed == random_mix(T, first, seeds, 1, 0, count)
        unmixed == random_unmix(T, mixed.state, mixed.i, T.n - 1)
        prev == At(unmixed, T.n - 1)
        lung == (BitXor(At(unmixed, T.n),
                        (BitXor(prev, ShiftRight(prev, T.w - 2)) * T.mult3) % Pow2(T.w))
                 - T.n) % Pow2(T.w)
        put == Put(unmixed, T.n, lung)
    IN  Put(put, 0, BitOr(At(put, 0), Pow2(T.w - 1)))

\* rock(i, k)
rock(T, state, i, kk) ==
    BitOr(BitAnd(At(state, i), T.upper), BitAnd(At(state, kk), T.lower))

\* roll(word, i): the state with the new lung
roll(T, state, word, i) ==
    LET lung == At(state, T.n)
    IN  Put(state, T.n,
            BitXor(BitXor(BitXor(ShiftRight(word, 1), IF word % 2 # 0 THEN T.a ELSE 0),
                          At(state, i)),
                   BitXor(lung, ShiftLeft(lung, T.lung_shift, T.w))))

\* twist(word, i, k): the state with the new word i, and the word returned
melg_twist(T, state, word, i, kk) ==
    LET lung == At(state, T.n)
        put == Put(state, i, BitXor(word, BitXor(lung, ShiftRight(lung, T.twist_right))))
        new == At(put, i)
    IN  [state |-> put,
         next |-> BitXor(BitXor(new, ShiftLeft(new, T.twist_left, T.w)),
                         BitAnd(At(put, kk), T.twist_mask))]

\* a mutation of the switch of rand(): cycle 1 ends one call later
switch_late(T, cycle, index) ==
    CASE cycle = 1 ->
            [rock_i |-> index, rock_k |-> index + 1, roll_i |-> index + T.m,
             twist_i |-> index, twist_k |-> index + T.l,
             index |-> index + 1,
             cycle |-> IF index + 1 = T.n - T.m + 1 THEN 2 ELSE 1]
      [] cycle = 2 ->
            [rock_i |-> index, rock_k |-> index + 1, roll_i |-> index + T.m - T.n,
             twist_i |-> index, twist_k |-> index + T.l,
             index |-> index + 1,
             cycle |-> IF index + 1 = T.n - T.l THEN 3 ELSE 2]
      [] cycle = 3 ->
            [rock_i |-> index, rock_k |-> index + 1, roll_i |-> index + T.m - T.n,
             twist_i |-> index, twist_k |-> index - (T.n - T.l),
             index |-> index + 1,
             cycle |-> IF index + 1 = T.n - 1 THEN 4 ELSE 3]
      [] cycle = 4 ->
            [rock_i |-> T.n - 1, rock_k |-> 0, roll_i |-> T.m - 1,
             twist_i |-> T.n - 1, twist_k |-> index - (T.n - T.l),
             index |-> 0,
             cycle |-> 1]
\* rand(): the switch, with the arguments of rock, roll and twist, and the
\* index and the cycle after the call
switch(T, cycle, index) ==
    CASE cycle = 1 ->
            [rock_i |-> index, rock_k |-> index + 1, roll_i |-> index + T.m,
             twist_i |-> index, twist_k |-> index + T.l,
             index |-> index + 1,
             cycle |-> IF index + 1 = T.n - T.m THEN 2 ELSE 1]
      [] cycle = 2 ->
            [rock_i |-> index, rock_k |-> index + 1, roll_i |-> index + T.m - T.n,
             twist_i |-> index, twist_k |-> index + T.l,
             index |-> index + 1,
             cycle |-> IF index + 1 = T.n - T.l THEN 3 ELSE 2]
      [] cycle = 3 ->
            [rock_i |-> index, rock_k |-> index + 1, roll_i |-> index + T.m - T.n,
             twist_i |-> index, twist_k |-> index - (T.n - T.l),
             index |-> index + 1,
             cycle |-> IF index + 1 = T.n - 1 THEN 4 ELSE 3]
      [] cycle = 4 ->
            [rock_i |-> T.n - 1, rock_k |-> 0, roll_i |-> T.m - 1,
             twist_i |-> T.n - 1, twist_k |-> index - (T.n - T.l),
             index |-> 0,
             cycle |-> 1]

\* a MELG generator not yet constructed
InitMelg ==
    /\ InitModel /\ NoOptimizer /\ NoProfile /\ NoDecompose /\ NoRunner /\ NoReader
    /\ gen = <<>> /\ out = <<>>
    /\ melg = [type |-> Melg19937_64, state |-> <<>>, index |-> 0, cycle |-> 0,
               calls |-> 0, touched |-> {}, next |-> 0]

\* Melg(seed)
Construct_Melg ==
    /\ melg.state = <<>>
    /\ \E seed \in GeneratorSeeds :
        melg' = [melg EXCEPT
                    !.state = melg_reset(melg.type, melg_seeds(melg.type, seed)),
                    !.index = 0,
                    !.cycle = 1]
    /\ UNCHANGED <<parameters, optimizer, readers, profiles, decompose, runner, gen, out>>

\* rand(): the words of the state the call reads or writes are recorded
Rand_Melg ==
    /\ melg.state # <<>>
    /\ melg.calls < MaxCalls
    /\ LET T == melg.type
           to == switch(T, melg.cycle, melg.index)
           rocked == rock(T, melg.state, to.rock_i, to.rock_k)
           rolled == roll(T, melg.state, rocked, to.roll_i)
           twisted == melg_twist(T, rolled, rocked, to.twist_i, to.twist_k)
       IN  melg' = [melg EXCEPT
                       !.state = twisted.state,
                       !.index = to.index,
                       !.cycle = to.cycle,
                       !.calls = @ + 1,
                       !.touched = {to.rock_i, to.rock_k, to.roll_i, T.n,
                                    to.twist_i, to.twist_k},
                       !.next = twisted.next]
    /\ UNCHANGED <<parameters, optimizer, readers, profiles, decompose, runner, gen, out>>

NextMelg ==
    \/ Construct_Melg
    \/ Rand_Melg

SpecMelg == InitMelg /\ [][NextMelg]_vars

(***************************************************************************)
(* The Mersenne Twister of Matsumoto and Nishimura: the sequence of words  *)
(* x[k+n] = x[k+m] xor ((upper bits of x[k] | lower bits of x[k+1]) A),    *)
(* started by Knuth's expansion of a single seed, and its tempering.       *)

(***************************************************************************)
(* The line profiles.  Wavelengths, widths and amplitudes are fixed-point  *)
(* integers; the Gaussian's exponential is a power of two of the integer   *)
(* part of its argument and underflows to zero, as exp does, when the      *)
(* argument is large.  The Lorentzian has no exponential and stays         *)
(* positive at every abscissa of the grid.                                 *)
(***************************************************************************)
MaxAbscissa == 9
MaxCentre == 1
MaxDoppler == 2
MaxDamping == 2
MaxAmplitude == 2
MaxExponent == 20

Scale == Pow2(MaxExponent)

sqr(x) == x * x

\* (1.0 / (sqrt_of_pi * gamma)) * exp(-sqr(x / gamma))
f_g(x, gamma) ==
    IF sqr(x) \div sqr(gamma) > MaxExponent THEN 0
    ELSE (Scale \div gamma) \div Pow2(sqr(x) \div sqr(gamma))

\* 1.0 / ((pi * gamma) * (1.0 + sqr(x / gamma)))
f_l(x, gamma) == (Scale * gamma) \div (sqr(gamma) + sqr(x))

\* abs(x) < c * b ? f(x, b) : 0.0, with f_x_b the value f(x, b)
truncate(f_x_b, x, b, c) == IF Abs(x) < c * b THEN f_x_b ELSE 0

\* Pseudo_Voigt(b, d): both terms get the width of the convolution, and eta,
\* in hundredths, grows from 0 to 1 with the Lorentzian's share of it
Pseudo_Voigt(b, d) ==
    [gamma_g |-> b + d, gamma_l |-> b + d, eta |-> (100 * d) \div (b + d)]

\* Pseudo_Voigt::operator()
Pseudo_Voigt_call(A, x) ==
    ((100 - A.eta) * f_g(x, A.gamma_g) + A.eta * f_l(x, A.gamma_l)) \div 100

Kinds == {"G_Doppler", "A_Doppler", "Intergalactic_Voigt"}

\* the parameters of the many-multiplet profile are exact fractions
\* <<numerator, denominator>> in lowest terms, the denominator positive
MaxRest == 2
MaxCoefficient == 1
MaxAlpha == 1

RECURSIVE GCD(_, _)
GCD(m, n) == IF n = 0 THEN m ELSE GCD(n, m % n)

Frac(m, n) ==
    LET g == GCD(Abs(m), Abs(n))
        sign == IF n < 0 THEN -1 ELSE 1
    IN  <<sign * (m \div g), sign * (n \div g)>>

Plus(e, f) == Frac(e[1] * f[2] + f[1] * e[2], e[2] * f[2])
Times(e, f) == Frac(e[1] * f[1], e[2] * f[2])
Over(e, f) == Frac(e[1] * f[2], e[2] * f[1])
Whole(m) == <<m, 1>>

\* 10^-6 and 1.0E+08, scaled down by 10^5 each
micro == Frac(1, 10)
E08 == Whole(1000)

\* a mutation of u: the square of 1 + mu loses its 1 instead of ... + 2
A_Doppler_u_plus_one(q0, q6, q7) ==
    Over(E08, Plus(Over(E08, q0),
                   Times(Times(q6, Times(q7, micro)),
                         Plus(Times(q7, micro), Whole(1)))))

\* u(1.0E+08 / (1.0E+08 / q[0] + q[6] * (q[7] * micro) * (q[7] * micro + 2.0)))
A_Doppler_u(q0, q6, q7) ==
    Over(E08, Plus(Over(E08, q0),
                   Times(Times(q6, Times(q7, micro)),
                         Plus(Times(q7, micro), Whole(2)))))

\* the default constructors
DefaultProfile(kind) ==
    IF kind = "Intergalactic_Voigt"
    THEN [kind |-> kind, a |-> 0, c |-> 0, b |-> 1, d |-> 1,
          approximation |-> Pseudo_Voigt(1, 1)]
    ELSE [kind |-> kind, a |-> 0, c |-> 0, b |-> 1, d |-> 0,
          approximation |-> <<>>, q |-> <<>>, u |-> Whole(0)]

\* the constructors from a parameter array: the central wavelength c, the
\* Doppler width b, the damping width d and the amplitude a they compute
\* are drawn directly; the modified rest wavelength u of the many-multiplet
\* profile is computed from q[0], q[6] and q[7]
Profiles(kind) ==
    IF kind = "A_Doppler"
    THEN {[kind |-> kind, a |-> a, c |-> c, b |-> b, d |-> 0,
           approximation |-> <<>>,
           q |-> [q0 |-> q0, q6 |-> q6, q7 |-> q7],
           u |-> A_Doppler_u(Whole(q0), Whole(q6), Whole(q7))] :
             a \in 1..MaxAmplitude, c \in 0..MaxCentre, b \in 1..MaxDoppler,
             q0 \in 1..MaxRest, q6 \in 0..MaxCoefficient,
             q7 \in (-MaxAlpha)..MaxAlpha}
    ELSE IF kind = "Intergalactic_Voigt"
    THEN {[kind |-> kind, a |-> a, c |-> c, b |-> b, d |-> d,
           approximation |-> Pseudo_Voigt(b, d)] :
             a \in 1..MaxAmplitude, c \in 0..MaxCentre,
             b \in 1..MaxDoppler, d \in 1..MaxDamping}
    ELSE {[kind |-> kind, a |-> a, c |-> c, b |-> b, d |-> 0,
           approximation |-> <<>>, q |-> <<>>, u |-> Whole(0)] :
             a \in 1..MaxAmplitude, c \in 0..MaxCentre, b \in 1..MaxDoppler}

\* operator() of each kind
Call(P, x) ==
    IF P.kind = "Intergalactic_Voigt"
    THEN P.a * Pseudo_Voigt_call(P.approximation, x - P.c)
    ELSE P.a * truncate(f_g(x - P.c, P.b), x - P.c, P.b, 4)

InitProfile ==
    /\ profile \in {DefaultProfile(kind) : kind \in Kinds}
    /\ point = <<>>

InitProf == InitModel /\ NoOptimizer /\ NoGenerator /\ InitProfile /\ NoDecompose /\ NoRunner /\ NoReader

Construct_Profile ==
    /\ \E kind \in Kinds : \E P \in Profiles(kind) : profile' = P
    /\ point' = <<>>
    /\ UNCHANGED <<parameters, optimizer, readers, generator, decompose, runner>>

Evaluate ==
    /\ \E x \in (-MaxAbscissa)..MaxAbscissa :
         point' = [x |-> x, y |-> Call(profile, x)]
    /\ UNCHANGED <<parameters, optimizer, readers, generator, decompose, runner, profile>>

NextProf ==
    \/ Construct_Profile
    \/ Evaluate

SpecProf == InitProf /\ [][NextProf]_vars


(***************************************************************************)
(* The symmetric eigenproblem solver R_Decompose.  Matrices are sequences  *)
(* of n * n entries.  The LAPACK routine is external: what it returns is   *)
(* a function of the symmetric matrix it reads from the triangle named by  *)
(* uplo of its column-major argument, its eigenvalues and eigenvectors are *)
(* terms over that matrix, and whether it converges is its own choice.  It *)
(* reports an illegal argument for n < 0 and for lda < max(1, n) and does  *)
(* not look for entries that are not finite.                               *)
(***************************************************************************)
MaxEntry == 1

\* the entries of a matrix; the last stands for one that is not finite
NaN == MaxEntry + 1
Entries == 0..NaN
Dimensions == {0, 1, 2}

Matrices(n) == [1..(n * n) -> Entries]

uplo_lower == "L"
uplo == "U"

\* the symmetric matrix LAPACK reads from the column-major array a
Symmetric(ul, n, a) ==
    [e \in (0..(n - 1)) \X (0..(n - 1)) |->
        IF (ul = "U") = (e[1] <= e[2])
        THEN a[e[1] + e[2] * n + 1]
        ELSE a[e[2] + e[1] * n + 1]]

\* the argument checks of the routine
illegal(n, lda) ==
    IF n < 0 THEN -4
    ELSE IF lda < (IF n > 1 THEN n ELSE 1) THEN -6
    ELSE 0

\* the routine called with workspace sizes of -1
syevr_query(n, lda) == [info |-> illegal(n, lda)]

\* the routine called on the array a; converged is its own choice
syevr(ul, n, a, lda, converged) ==
    IF illegal(n, lda) # 0
    THEN [info |-> illegal(n, lda), w |-> <<>>, Z |-> <<>>]
    ELSE IF ~converged
    THEN [info |-> 1, w |-> <<>>, Z |-> <<>>]
    ELSE [info |-> 0,
          w |-> [j \in 1..n |-> <<"w", Symmetric(ul, n, a), j - 1, 0>>],
          Z |-> [p \in 1..(n * n) |->
                   <<"z", Symmetric(ul, n, a), (p - 1) % n, (p - 1) \div n>>]]

\* swaps A[ij] and A[ji] for every j < i
transpose(n, A) ==
    [p \in 1..(n * n) |-> A[((p - 1) % n) * n + ((p - 1) \div n) + 1]]

Idle == [at |-> "none", n |-> 0, A |-> <<>>, Z |-> <<>>, w |-> <<>>,
         info |-> 0, transposed |-> FALSE]

InitSolver == solver = [r \in Runs |-> Idle]

InitDec == InitModel /\ NoOptimizer /\ NoGenerator /\ NoProfile /\ InitSolver /\ NoRunner /\ NoReader

\* R_Decompose(n_in), which calls allocate_workspace
R_Decompose(r) ==
    /\ solver[r].at = "none"
    /\ \E n_in \in Dimensions :
         LET info == syevr_query(n_in, n_in).info
         IN  solver' = [solver EXCEPT ![r] =
                 [Idle EXCEPT !.n = n_in, !.info = info,
                     !.at = IF info = 0 THEN "ready"
                            ELSE IF info > 0 THEN "runtime_error"
                            ELSE "invalid_argument"]]
    /\ UNCHANGED <<parameters, optimizer, readers, generator, profiles, runner>>

\* operator()(A, Z, w)
R_Decompose_call(r) ==
    /\ solver[r].at = "ready"
    /\ \E A \in Matrices(solver[r].n), converged \in BOOLEAN :
         LET n == solver[r].n
             awork == A
             lapack == syevr(uplo, n, awork, n, converged)
         IN  solver' = [solver EXCEPT ![r] =
                 IF lapack.info = 0
                 THEN [at |-> "returned", n |-> n, A |-> A,
                       Z |-> transpose(n, lapack.Z), w |-> lapack.w,
                       info |-> 0, transposed |-> TRUE]
                 ELSE [at |-> IF lapack.info > 0 THEN "runtime_error"
                              ELSE "invalid_argument",
                       n |-> n, A |-> A, Z |-> lapack.Z, w |-> lapack.w,
                       info |-> lapack.info, transposed |-> FALSE]]
    /\ UNCHANGED <<parameters, optimizer, readers, generator, profiles, runner>>

NextDec ==
    \E r \in Runs :
        \/ R_Decompose(r)
        \/ R_Decompose_call(r)

SpecDec == InitDec /\ [][NextDec]_vars


(***************************************************************************)
(* The runner.  An argument is a sequence of characters; the standard      *)
(* output is the sequence of the pieces written to it.  run reads the      *)
(* model with the actions of Model::get above and calls the model's set.   *)
(* The optimizer's run is reduced to what run reads of it, whether the     *)
(* result is optimized; the main function, which maps what run returns or  *)
(* throws to the exit code, is the one the exit codes describe.            *)
(***************************************************************************)
MaxArgs == 9
ArgCount == 8

Digits == {"0", "1"}

RECURSIVE Extract(_, _, _)
Extract(arg, p, acc) ==
    IF p > Len(arg) \/ arg[p] \notin Digits THEN acc
    ELSE Extract(arg, p + 1, 10 * acc + (IF arg[p] = "1" THEN 1 ELSE 0))

\* istringstream iss(arg); T t; if (iss >> t) return t; throw invalid_argument
parse(arg) ==
    IF arg # <<>> /\ arg[1] \in Digits
    THEN [ok |-> TRUE, t |-> Extract(arg, 1, 0)]
    ELSE [ok |-> FALSE, t |-> 0]

Numbers(c) == [p \in 1..c |-> IF p = 1 THEN <<"e">> ELSE <<"1">>]

\* the command lines: any count of numbers, or the right count with one
\* argument that is no number or is empty
Invocations ==
    {Numbers(c) : c \in 1..MaxArgs}
    \cup {[Numbers(ArgCount) EXCEPT ![p] = word] :
             p \in 2..ArgCount, word \in {<<"x">>, <<>>}}

arg_count_less_name == Len(args) - 1
get_arg_count == Len(args)

InitRunner ==
    /\ args \in Invocations
    /\ run_at = "start"
    /\ parsed = <<>>
    /\ cout = <<>>
    /\ exception = ""
    /\ is_optimized = FALSE
    /\ is_underflow = FALSE
    /\ exit_code = -1

InitRun == InitModel /\ NoOptimizer /\ NoGenerator /\ NoProfile /\ NoDecompose /\ InitRunner /\ NoReader

Throw(e) ==
    /\ exception' = e
    /\ run_at' = "thrown"

\* the argument count
Run ==
    /\ run_at = "start"
    /\ IF get_arg_count = 1
       THEN /\ cout' = Append(cout, "usage")
            /\ run_at' = "returned"
            /\ exit_code' = 0
            /\ UNCHANGED exception
       ELSE IF get_arg_count # ArgCount
       THEN Throw("invalid_argument") /\ UNCHANGED <<cout, exit_code>>
       ELSE run_at' = "parse" /\ UNCHANGED <<cout, exception, exit_code>>
    /\ UNCHANGED <<parameters, optimizer, readers, generator, profiles, decompose,
                   args, parsed, is_optimized, is_underflow>>

\* write_command_line(cout) and the seven parse_... calls
Parse ==
    /\ run_at = "parse"
    /\ cout' = Append(cout, "command line")
    /\ IF \A p \in 2..ArgCount : parse(args[p]).ok
       THEN /\ parsed' = [p \in 1..(ArgCount - 1) |-> parse(args[p + 1]).t]
            /\ run_at' = "model"
            /\ UNCHANGED exception
       ELSE Throw("invalid_argument") /\ UNCHANGED parsed
    /\ UNCHANGED <<parameters, optimizer, readers, generator, profiles, decompose,
                   args, is_optimized, is_underflow, exit_code>>

\* M model; model.get(cin, cout): get starts by writing the model
\* definition to the output stream
Get ==
    /\ run_at = "model"
    /\ cout' = cout \o <<"<html>", "<!--", "<model>", "definition",
                         "</model>", "-->", "</html>">>
    /\ run_at' = "get"
    /\ UNCHANGED <<parameters, optimizer, readers, generator, profiles, decompose,
                   args, parsed, exception, is_optimized, is_underflow, exit_code>>

\* the steps of Model::get
Reading ==
    /\ run_at = "get"
    /\ \/ ReadSection
       \/ ReadLine
       \/ EndSection
       \/ EndOfInput
       \/ SectionError
       \/ LineError
       \/ IndexParameters
       \/ DereferenceResolution
       \/ DereferenceLine
       \/ Assign

\* if (cin.fail()) throw runtime_error(...)
Read ==
    /\ run_at = "get"
    /\ pc \in {"done", "failed"}
    /\ IF is_fail
       THEN Throw("runtime_error")
       ELSE run_at' = "minimize" /\ UNCHANGED exception
    /\ UNCHANGED <<parameters, optimizer, readers, generator, profiles, decompose,
                   args, parsed, cout, is_optimized, is_underflow, exit_code>>

\* the optimizer is built; the document and the log block are opened
Log ==
    /\ run_at = "minimize"
    /\ cout' = cout \o <<"<html>", "<!--", "<log>">>
    /\ run_at' = "log"
    /\ UNCHANGED <<parameters, optimizer, readers, generator, profiles, decompose,
                   args, parsed, exception, is_optimized, is_underflow, exit_code>>

\* what a call of minimize ends in: a result that is optimized, one with
\* the underflow flag set, one with neither, or a runtime_error thrown by
\* the eigenproblem solver
Outcomes == {"optimized", "underflow", "stopped", "runtime_error"}

\* optimizer.minimize(...); the log block is closed, the result messages
\* are written and the document is closed
Optimize ==
    /\ run_at = "log"
    /\ \E outcome \in Outcomes :
         IF outcome = "runtime_error"
         THEN /\ Throw("runtime_error")
              /\ UNCHANGED <<cout, is_optimized, is_underflow>>
         ELSE /\ is_optimized' = (outcome = "optimized")
              /\ is_underflow' = (outcome = "underflow")
              /\ cout' = cout \o <<"</log>", "-->", "result messages", "</html>">>
              /\ run_at' = "set"
              /\ UNCHANGED exception
    /\ UNCHANGED <<parameters, optimizer, readers, generator, profiles, decompose,
                   args, parsed, exit_code>>

\* model.set(...)
Setting ==
    /\ run_at = "set"
    /\ Set

\* model.put(cout) and the return
Return_ ==
    /\ run_at = "set"
    /\ pc = "set"
    /\ cout' = Append(cout, "put")
    /\ exit_code' = IF is_optimized THEN 0 ELSE 1
    /\ run_at' = "returned"
    /\ UNCHANGED <<parameters, optimizer, readers, generator, profiles, decompose,
                   args, parsed, exception, is_optimized, is_underflow>>

\* the main function: what run returns is the exit code, an
\* invalid_argument is exit code 10, a runtime_error is exit code 20
Main ==
    /\ run_at \in {"returned", "thrown"}
    /\ exit_code' = IF run_at = "returned" THEN exit_code
                    ELSE IF exception = "invalid_argument" THEN 10
                    ELSE 20
    /\ run_at' = "exited"
    /\ UNCHANGED <<parameters, optimizer, readers, generator, profiles, decompose,
                   args, parsed, cout, exception, is_optimized, is_underflow>>

NextRun ==
    \/ Run
    \/ Parse
    \/ Get
    \/ Reading
    \/ Read
    \/ Log
    \/ Optimize
    \/ Setting
    \/ Return_
    \/ Main

SpecRun == InitRun /\ [][NextRun]_vars

(***************************************************************************)
(* The read functions of readline.h.  A stream is a sequence of tokens and *)
(* a position; a token is well-formed or not, and the value extracted from *)
(* the well-formed token at position p is p.  An extraction at a token     *)
(* that is not well-formed, or at the end of the stream, sets the failbit, *)
(* and no extraction from a failed stream succeeds.  The overloads differ  *)
(* in the count of data vectors and in the text vector: the text of a      *)
(* record is what getline reads up to the end of the line, the first word  *)
(* of it or no text.                                                       *)
(***************************************************************************)
\* the most tokens a stream has
MaxTokens == 6
\* the most records a call asks for
MaxRecords == 2
\* the most data vectors of an overload, scaled down
MaxVectors == 2

Streams == UNION {[1..len -> BOOLEAN] : len \in 0..MaxTokens}

\* is >> aa
extract(is) ==
    IF is.fail \/ is.pos > Len(is.tokens) \/ ~is.tokens[is.pos]
    THEN [is EXCEPT !.fail = TRUE]
    ELSE [is EXCEPT !.pos = @ + 1]

\* getline(is, ss, eol); ist >> ss; if (!ist) ss.erase()
getline(is) ==
    IF is.fail \/ is.pos > Len(is.tokens)
    THEN [is EXCEPT !.fail = TRUE]
    ELSE [is EXCEPT !.pos = @ + 1]

\* is >> aa >> bb >> ... [and getline(is, ss, eol)]: the stream and the
\* values after the extraction of the data of one record, j values done
RECURSIVE record(_, _, _, _, _)
record(is, values, count, has_text, j) ==
    IF j < count
    THEN LET next == extract(is) IN
         record(next, Append(values, is.pos), count, has_text, j + 1)
    ELSE IF has_text
         THEN [is |-> getline(is),
               values |-> Append(values, IF is.pos <= Len(is.tokens) /\ is.tokens[is.pos]
                                         THEN is.pos ELSE 0)]
         ELSE [is |-> is, values |-> values]

\* for (i = 0; i < n; ++i) if (is >> ...) { ta.push_back(aa); ... }
RECURSIVE records(_, _, _, _, _, _)
records(is, temps, count, has_text, i, n) ==
    IF i >= n THEN [is |-> is, temps |-> temps]
    ELSE LET r == record(is, <<>>, count, has_text, 0) IN
         records(r.is,
                 IF r.is.fail THEN temps
                 ELSE [j \in DOMAIN temps |-> Append(temps[j], r.values[j])],
                 count, has_text, i + 1, n)

\* a mutation of read: the stream is not tested before the vectors are
\* modified
read_unchecked(is, targets, count, has_text, n, append) ==
    LET r == records(is, [j \in DOMAIN targets |-> <<>>], count, has_text, 0, n)
    IN  [is |-> r.is,
         targets |-> IF append
                     THEN [j \in DOMAIN targets |-> targets[j] \o r.temps[j]]
                     ELSE r.temps]
\* read(is, a, ..., n, append) and read(is, a, b, c, d, s, n, eol, append)
read_vectors(is, targets, count, has_text, n, append) ==
    LET r == records(is, [j \in DOMAIN targets |-> <<>>], count, has_text, 0, n)
    IN  [is |-> r.is,
         targets |-> IF ~r.is.fail
                     THEN IF append
                          THEN [j \in DOMAIN targets |-> targets[j] \o r.temps[j]]
                          ELSE r.temps
                     ELSE targets]

\* the calls: a stream that has not failed, an overload, target vectors
\* that are empty or hold an element each
InitReading ==
    \E tokens \in Streams, count \in 1..MaxVectors, has_text \in BOOLEAN,
       n \in 0..MaxRecords, append \in BOOLEAN, held \in {<<>>, <<100>>} :
        LET targets == [j \in 1..(count + IF has_text THEN 1 ELSE 0) |-> held] IN
        reading = [is |-> [tokens |-> tokens, pos |-> 1, fail |-> FALSE],
                   targets |-> targets, before |-> targets,
                   count |-> count, has_text |-> has_text, n |-> n, append |-> append,
                   called |-> FALSE]

InitRead ==
    /\ InitModel /\ NoOptimizer /\ NoGenerator /\ NoProfile /\ NoDecompose /\ NoRunner
    /\ InitReading

\* one call of read
Read_call ==
    /\ ~reading.called
    /\ LET r == read_vectors(reading.is, reading.targets, reading.count,
                             reading.has_text, reading.n, reading.append)
       IN  reading' = [reading EXCEPT !.is = r.is, !.targets = r.targets, !.called = TRUE]
    /\ UNCHANGED <<parameters, optimizer, generator, profiles, decompose, runner>>

NextRead == Read_call

SpecRead == InitRead /\ [][NextRead]_vars

(***************************************************************************)
RECURSIVE Recurrence(_, _, _)
Recurrence(T, seed, kk) ==
    IF kk = 0 THEN seed % Pow2(T.w)
    ELSE IF kk < T.n
    THEN LET last == Recurrence(T, seed, kk - 1) IN
         (T.mult1 * BitXor(last, ShiftRight(last, T.w - 2)) + kk) % Pow2(T.w)
    ELSE LET xk == Recurrence(T, seed, kk - T.n)
             xk1 == Recurrence(T, seed, kk - T.n + 1)
             xkm == Recurrence(T, seed, kk - T.n + T.m)
             y == BitOr(BitAnd(xk, Mask(T.w) - Mask(T.r)), BitAnd(xk1, Mask(T.r)))
             yA == IF y % 2 = 1 THEN BitXor(ShiftRight(y, 1), T.a) ELSE ShiftRight(y, 1)
         IN  BitXor(xkm, yA)

Tempered(T, x) ==
    LET y1 == BitXor(x, BitAnd(ShiftRight(x, T.u), T.d))
        y2 == BitXor(y1, BitAnd(ShiftLeft(y1, T.s, T.w), T.b))
        y3 == BitXor(y2, BitAnd(ShiftLeft(y2, T.t, T.w), T.c))
    IN  BitXor(y3, ShiftRight(y3, T.l))

\* the k-th word of the reference sequence, k = 0, 1, ...
Reference(T, seed, kk) == Tempered(T, Recurrence(T, seed, kk + T.n))

\* Knuth's expansion of a single seed
Expansion(T, seed) == [p \in 1..T.n |-> Recurrence(T, seed, p - 1)]

(***************************************************************************)
(* The parameter table as the model definition declares it, for the        *)
(* statements below: the target of a reference, the root of a reference    *)
(* chain, and the independent (free, unlinked) parameters in table order.  *)
(***************************************************************************)
Declared == 0..(Len(text) - 1)

\* the element a declared reference of element i names: the resolution
\* parameter of the section, or the parameter at i's offset in the line
DeclaredTarget(i) ==
    IF i \in Range(isc)
    THEN At(isc, sim[At(text, i).ref])
    ELSE LET line == CHOOSE id \in DOMAIN pim : i - pim[id] \in 0..(ParameterCount - 1) IN
         pim[At(text, i).ref] + (i - pim[line])

RECURSIVE ChainEnd(_, _)
ChainEnd(i, fuel) ==
    IF At(text, i).ref = "" \/ fuel = 0 THEN i ELSE ChainEnd(DeclaredTarget(i), fuel - 1)

DeclaredRoot(i) == ChainEnd(i, Len(text))

DeclaredFree(i) == At(text, i).msk /\ At(text, i).ref = ""

FreeCount == Cardinality({i \in Declared : DeclaredFree(i)})

\* the number of free, unlinked parameters before element i
FreeBefore(i) == Cardinality({q \in Declared : q < i /\ DeclaredFree(q)})

\* the j-th free, unlinked parameter, j = 0 .. FreeCount - 1
FreeAt(j) == CHOOSE i \in Declared : DeclaredFree(i) /\ FreeBefore(i) = j

Lower(i) == IF At(text, i).lo <= At(text, i).up THEN At(text, i).lo ELSE At(text, i).up
Upper(i) == IF At(text, i).lo <= At(text, i).up THEN At(text, i).up ELSE At(text, i).lo

\* what the free parameter vector x gives element i
Seen(i, x) ==
    LET r == DeclaredRoot(i) IN
    IF At(text, r).msk THEN At(x, FreeBefore(r)) ELSE At(text, r).val

(***************************************************************************)
(* C4.  Link resolution in Model::get terminates for every table of        *)
(* references: get ends in success or in an error, never in an endless     *)
(* loop.                                                                   *)
(***************************************************************************)
C4_GetTerminates == <>(pc \in {"done", "failed"})

(***************************************************************************)
(* C5.  After a successful get every element declared with a reference     *)
(* has an empty reference and carries the value, bounds, mask flag and     *)
(* index of the unlinked root at the end of its reference chain.           *)
(***************************************************************************)
C5_LinkedInheritRoot ==
    pc = "done" =>
        \A i \in Declared :
            At(text, i).ref # "" =>
                LET r == DeclaredRoot(i) IN
                /\ At(ref, i) = ""
                /\ At(text, r).ref = ""
                /\ At(this_val, i) = At(text, r).val
                /\ At(this_msk, i) = At(text, r).msk
                /\ At(this_lo, i) = IF At(text, r).msk THEN Lower(r) ELSE 0
                /\ At(this_up, i) = IF At(text, r).msk THEN Upper(r) ELSE 0
                /\ At(this_ind, i) = IF At(text, r).msk THEN FreeBefore(r) ELSE 0
                /\ At(this_val, i) = At(this_val, r)
                /\ At(this_msk, i) = At(this_msk, r)
                /\ At(this_lo, i) = At(this_lo, r)
                /\ At(this_up, i) = At(this_up, r)
                /\ At(this_ind, i) = At(this_ind, r)

\* a chain of two references, the first of them a forward reference, that
\* ends at a free root other than the first free parameter
C5_Witness ==
    /\ pc = "done"
    /\ \E i \in Declared :
        /\ At(text, i).ref # ""
        /\ DeclaredTarget(i) > i
        /\ At(text, DeclaredTarget(i)).ref # ""
        /\ At(text, DeclaredRoot(i)).msk
        /\ FreeBefore(DeclaredRoot(i)) > 0

(***************************************************************************)
(* C6.  After a successful get, get_parameter_count() is the number of     *)
(* free, unlinked elements, also for a table with no free element.         *)
(***************************************************************************)
C6_ParameterCount == pc = "done" => get_parameter_count = FreeCount

(***************************************************************************)
(* C7.  cost(x, n) evaluates the sections on a table in which every        *)
(* element with mask flag set holds x[ind[i]], the entry of its root, and  *)
(* every pinned element its stored value, and returns the sum of the       *)
(* section costs; elements linked to the same root receive the same value. *)
(***************************************************************************)
C7_CostSplice ==
    (pc = "done" /\ cost_x # <<>>) =>
        /\ \A i \in Declared : At(cost_y, i) = Seen(i, cost_x)
        /\ \A i \in Declared :
            /\ At(this_msk, i) => At(cost_y, i) = At(cost_x, At(this_ind, i))
            /\ ~At(this_msk, i) => At(cost_y, i) = At(this_val, i)
        /\ \A i, q \in Declared :
            DeclaredRoot(i) = DeclaredRoot(q) => At(cost_y, i) = At(cost_y, q)
        /\ cost_d = Sum([p \in DOMAIN text |-> Seen(p - 1, cost_x)], 0, Len(text) - 1)

\* a cost call on a table with a pinned element, a free root that is not the
\* first free parameter and an element linked to it, in more than one section
C7_Witness ==
    /\ pc = "done" /\ cost_x # <<>>
    /\ Len(this_isc) > 1
    /\ \E i, q \in Declared :
        /\ ~At(this_msk, q)
        /\ At(text, i).ref # ""
        /\ At(this_msk, i)
        /\ At(this_ind, i) > 0

(***************************************************************************)
(* C8.  For every j < get_parameter_count(), the initial parameter value   *)
(* j is the midpoint and the initial local step size j the half-width of   *)
(* the bounds of the j-th free, unlinked parameter, and the constraint is  *)
(* built from those bounds.                                                *)
(***************************************************************************)
C8_InitialValues ==
    pc = "done" =>
        \A j \in 0..(get_parameter_count - 1) :
            /\ j < FreeCount
            /\ 2 * At(get_initial_parameter_values, j) = Lower(FreeAt(j)) + Upper(FreeAt(j))
            /\ 2 * At(get_initial_local_step_sizes, j) = Upper(FreeAt(j)) - Lower(FreeAt(j))
            /\ At(get_constraint.a, j) = Lower(FreeAt(j))
            /\ At(get_constraint.b, j) = Upper(FreeAt(j))

(***************************************************************************)
(* C10.  The initial local step sizes are positive for every free          *)
(* parameter, for bounds in either order and for equal bounds.             *)
(***************************************************************************)
C10_StepSizesPositive ==
    pc = "done" =>
        \A j \in 0..(FreeCount - 1) : At(get_initial_local_step_sizes, j) > 0


(***************************************************************************)
(* The box of a bounded constraint.                                        *)
(***************************************************************************)
Within(c, v) == \A p \in DOMAIN v : c.a[p] <= v[p] /\ v[p] <= c.b[p]

\* the place of a run in its sequence of generations
Place(r) == <<at[r], result[r].g, slot[r], attempts[r], Len(offspring[r])>>

(***************************************************************************)
(* C1.  In a run with a bounded constraint every offspring accepted for    *)
(* ranking lies within the bounds in every component, and so does the mean *)
(* recombined from the accepted offspring; a parameter vector found        *)
(* violating is not among the accepted offspring.                          *)
(***************************************************************************)
C1_AcceptedWithinBounds ==
    constraint.bounded =>
        \A r \in Runs :
            /\ \A p \in DOMAIN offspring[r] : Within(constraint, offspring[r][p].x)
            /\ at[r] # "start" => Within(constraint, result[r].x)
            /\ verdict[r] => \A p \in DOMAIN offspring[r] : offspring[r][p].x # tested[r]

\* an offspring was found violating and is being redrawn, next to an
\* accepted offspring of the same generation
C1_Witness ==
    /\ constraint.bounded
    /\ \E r \in Runs :
        /\ at[r] = "sample"
        /\ verdict[r] /\ ~Within(constraint, tested[r])
        /\ attempts[r] > 0
        /\ offspring[r] # <<>>

(***************************************************************************)
(* C2.  Every run returns; the generation number never exceeds the stop    *)
(* generation of the configuration, no generation is begun once the        *)
(* generation number has reached it, and the result never has both the     *)
(* optimized flag and the underflow flag set.                              *)
(***************************************************************************)
C2_Terminates ==
    /\ [](\A r \in Runs :
            at[r] # "start" =>
                /\ result[r].g <= config.stop_generation
                /\ at[r] \in {"sample", "select"} => result[r].g < config.stop_generation
                /\ ~(result[r].optimized /\ result[r].underflow))
    /\ \A r \in Runs : <>(at[r] = "returned")

\* a run returned at the stop generation, neither optimized nor underflowed
C2_Witness ==
    \E r \in Runs :
        /\ at[r] = "returned"
        /\ config.stop_generation > 1
        /\ result[r].g = config.stop_generation
        /\ ~result[r].optimized /\ ~result[r].underflow

C9_IsViolated ==
    \A r \in Runs :
        (constraint.bounded /\ tested[r] # <<>>) =>
            /\ verdict[r] <=> \E p \in DOMAIN tested[r] :
                   tested[r][p] < constraint.a[p] \/ tested[r][p] > constraint.b[p]
            /\ penalty[r] = 0

\* a parameter vector with a component on its lower and a component on its
\* upper bound was found not violating
C9_Witness ==
    /\ constraint.bounded
    /\ \E r \in Runs :
        /\ tested[r] # <<>> /\ ~verdict[r]
        /\ \E p \in DOMAIN tested[r] : tested[r][p] = constraint.a[p]
        /\ \E p \in DOMAIN tested[r] : tested[r][p] = constraint.b[p]

(***************************************************************************)
(* C11.  Model::set(x, z) gives every element with mask flag set the entry *)
(* x[ind[i]] as value and z[ind[i]] as uncertainty, an element linked to a *)
(* free root the entries of its root; a pinned element keeps its value and *)
(* has uncertainty 0; bounds, mask flags, indices and the id maps are as   *)
(* get left them.                                                          *)
(***************************************************************************)
C11_SetFrame ==
    pc = "set" =>
        /\ \A i \in Declared :
            /\ At(msk, i) =>
                /\ At(this_val, i) = At(set_x, At(ind, i))
                /\ At(this_err, i) = At(set_z, At(ind, i))
                /\ At(this_val, i) = At(set_x, FreeBefore(DeclaredRoot(i)))
                /\ At(this_err, i) = At(set_z, FreeBefore(DeclaredRoot(i)))
            /\ ~At(msk, i) =>
                /\ At(this_val, i) = At(val, i)
                /\ At(this_err, i) = 0
        /\ this_lo = lo /\ this_up = up
        /\ this_msk = msk /\ this_ind = ind
        /\ this_sim = sim /\ this_pim = pim
        /\ this_isc = isc /\ this_nli = nli

\* set on a table with a pinned element, and an element linked to a free
\* root that is not the first free parameter
C11_Witness ==
    /\ pc = "set"
    /\ \E i, q \in Declared :
        /\ ~At(msk, i)
        /\ At(text, q).ref # "" /\ At(msk, q) /\ At(ind, q) > 0

(***************************************************************************)
(* C12.  The result a run returns carries the uncertainties postopti       *)
(* estimates at the returned parameter values, whatever made the run       *)
(* terminate.                                                              *)
(***************************************************************************)
C12_UncertaintiesEstimated ==
    \A r \in Runs :
        at[r] = "returned" => result[r].z = postopti(result[r]).z

(***************************************************************************)
(* C13.  A generator of type mt19937 constructed from a single seed        *)
(* returns, word for word, the reference sequence of the Mersenne Twister  *)
(* for that seed.                                                          *)
(***************************************************************************)
C13_ReferenceSequence ==
    (gen # <<>> /\ gen.type = Mt19937) =>
        \A p \in DOMAIN out : out[p] = Reference(gen.type, gen.seed, p - 1)

(***************************************************************************)
(* C14.  A generator of any predefined type constructed from a single seed *)
(* starts from the words of Knuth's expansion of that seed.                *)
(***************************************************************************)
C14_SingleSeedExpansion ==
    (gen # <<>> /\ gen.words # <<>> /\ out = <<>>) =>
        gen.words = Expansion(gen.type, gen.seed)

(***************************************************************************)
(* C15: every profile variant (Gaussian Doppler, many-multiplet Doppler    *)
(* and Voigt) evaluates to exactly 0 at every wavelength x with            *)
(* |x - c| >= K * b, the boundary included, where c is the profile's       *)
(* central wavelength, b its Doppler width and K = 4.                      *)
(***************************************************************************)
C15_ZeroBeyondCutoff ==
    point # <<>> /\ Abs(point.x - profile.c) >= 4 * profile.b => point.y = 0

\* the entries of the row-major matrices A and B agree on and above, or on
\* and below, the diagonal
AgreeUpper(n, A, B) ==
    \A i \in 0..(n - 1), j \in 0..(n - 1) :
        i <= j => A[i * n + j + 1] = B[i * n + j + 1]

AgreeLower(n, A, B) ==
    \A i \in 0..(n - 1), j \in 0..(n - 1) :
        i >= j => A[i * n + j + 1] = B[i * n + j + 1]

(***************************************************************************)
(* C16, as stated: two calls of the solver whose row-major inputs agree on *)
(* every entry A[i][j] with i <= j return identical eigenvalues w and      *)
(* identical Z.                                                            *)
(***************************************************************************)
C16_UpperTriangleOnly ==
    \A p \in Runs, q \in Runs :
        /\ solver[p].at = "returned"
        /\ solver[q].at = "returned"
        /\ solver[p].n = solver[q].n
        /\ AgreeUpper(solver[p].n, solver[p].A, solver[q].A)
        => solver[p].w = solver[q].w /\ solver[p].Z = solver[q].Z

(***************************************************************************)
(* C16, amended: two calls of the solver whose row-major inputs agree on   *)
(* every entry A[i][j] with i >= j return identical eigenvalues w and      *)
(* identical Z.                                                            *)
(***************************************************************************)
C16_LowerTriangleOnly ==
    \A p \in Runs, q \in Runs :
        /\ solver[p].at = "returned"
        /\ solver[q].at = "returned"
        /\ solver[p].n = solver[q].n
        /\ AgreeLower(solver[p].n, solver[p].A, solver[q].A)
        => solver[p].w = solver[q].w /\ solver[p].Z = solver[q].Z

\* two calls have returned whose inputs differ above the diagonal only
C16_Witness ==
    \E p \in Runs, q \in Runs :
        /\ solver[p].at = "returned"
        /\ solver[q].at = "returned"
        /\ solver[p].n = 2
        /\ solver[q].n = 2
        /\ solver[p].A # solver[q].A
        /\ AgreeLower(2, solver[p].A, solver[q].A)
        /\ solver[p].Z = solver[q].Z

\* the matrix A has an entry that is not finite
NonFinite(A) == \E p \in DOMAIN A : A[p] = NaN

(***************************************************************************)
(* C17: the solver fails with runtime_error exactly when the LAPACK        *)
(* routine reports non-convergence, and with invalid_argument when n <= 0  *)
(* or A contains an entry that is not finite; after either failure Z has   *)
(* not been transposed, and with no failure the call returns normally.     *)
(***************************************************************************)
C17_Failures ==
    \A r \in Runs :
        /\ solver[r].at = "runtime_error" <=> solver[r].info > 0
        /\ solver[r].at # "none" /\ solver[r].n <= 0
               => solver[r].at = "invalid_argument"
        /\ solver[r].A # <<>> /\ NonFinite(solver[r].A) /\ solver[r].info <= 0
               => solver[r].at = "invalid_argument"
        /\ solver[r].at \in {"runtime_error", "invalid_argument"}
               => ~solver[r].transposed
        /\ solver[r].A # <<>> /\ ~NonFinite(solver[r].A) /\ solver[r].info = 0
               => solver[r].at = "returned" /\ solver[r].transposed

\* an argument that does not start with a number
NoNumber(arg) == arg = <<>> \/ arg[1] \notin Digits

\* a reference of the model definition names no section or line, or names
\* the section or line it stands in
Malformed ==
    \E i \in Declared :
        /\ At(text, i).ref # ""
        /\ \/ At(text, i).ref \notin (IF i \in Range(isc) THEN DOMAIN sim ELSE DOMAIN pim)
           \/ DeclaredTarget(i) = i

(***************************************************************************)
(* C18: invoked with no arguments, run writes the usage message and        *)
(* returns 0 without reading the model; with an argument count other than  *)
(* 7, or with an argument that does not parse as a number, it fails with   *)
(* invalid_argument and the exit code is 10; after a completed             *)
(* optimization the exit code is 0 if and only if the result is optimized, *)
(* and 1 otherwise.                                                        *)
(***************************************************************************)
C18_ExitCodes ==
    /\ Len(args) = 1 /\ run_at # "start"
           => /\ run_at \in {"returned", "exited"}
              /\ exit_code = 0
              /\ cout = <<"usage">>
              /\ text = <<>> /\ pc = "section"
    /\ Len(args) \notin {1, ArgCount} /\ run_at # "start"
           => /\ exception = "invalid_argument"
              /\ run_at = "exited" => exit_code = 10
    /\ (/\ Len(args) = ArgCount
        /\ \E p \in 2..ArgCount : NoNumber(args[p])
        /\ run_at \notin {"start", "parse"})
           => /\ exception = "invalid_argument"
              /\ run_at = "exited" => exit_code = 10
    /\ run_at = "exited" /\ exception = "" /\ Len(args) = ArgCount
           => /\ exit_code = 0 <=> is_optimized
              /\ exit_code = 1 <=> ~is_optimized

\* a run has ended with exit code 1 after an optimization that stopped
\* short of the accuracy goal
C18_Witness ==
    /\ run_at = "exited"
    /\ exit_code = 1
    /\ ~is_optimized
    /\ cout[Len(cout)] = "put"

(***************************************************************************)
(* C19: a malformed model definition (an unknown reference, a reference of *)
(* a parameter to itself) makes Model::get fail, and a run whose           *)
(* Model::get has failed ends with exit code 10, an invalid argument.      *)
(***************************************************************************)
C19_MalformedModel ==
    /\ pc = "done" => ~Malformed
    /\ run_at = "exited" /\ is_fail
           => exception = "invalid_argument" /\ exit_code = 10

(***************************************************************************)
(* C20: when run fails with invalid_argument, nothing has been written to  *)
(* the standard output at the moment the exception is thrown.              *)
(***************************************************************************)
C20_NoPartialResult ==
    run_at = "thrown" /\ exception = "invalid_argument" => cout = <<>>

\* the marks that open a comment block or an element, and what closes each
Closing == [e \in {"<html>", "<!--", "<log>", "<model>"} |->
              CASE e = "<html>" -> "</html>"
                [] e = "<!--" -> "-->"
                [] e = "<log>" -> "</log>"
                [] OTHER -> "</model>"]

\* the blocks and elements still open after the pieces written, innermost
\* last; a closing mark that closes nothing stays on the stack
RECURSIVE Open(_, _, _)
Open(written, p, stack) ==
    IF p > Len(written) THEN stack
    ELSE IF written[p] \in DOMAIN Closing
    THEN Open(written, p + 1, Append(stack, written[p]))
    ELSE IF written[p] \in {Closing[e] : e \in DOMAIN Closing}
    THEN IF stack # <<>> /\ Closing[stack[Len(stack)]] = written[p]
         THEN Open(written, p + 1, SubSeq(stack, 1, Len(stack) - 1))
         ELSE Open(written, p + 1, Append(stack, written[p]))
    ELSE Open(written, p + 1, stack)

WellFormed(written) == Open(written, 1, <<>>) = <<>>

(***************************************************************************)
(* C21: when a run ends with a runtime_error, every comment block and      *)
(* element opened on the standard output has been closed.                  *)
(***************************************************************************)
C21_DocumentClosed ==
    run_at = "exited" /\ exception = "runtime_error" => WellFormed(cout)

(***************************************************************************)
(* C22: a run whose result has the underflow flag set ends as a            *)
(* runtime_error with exit code 20.                                        *)
(***************************************************************************)
C22_UnderflowIsRuntimeError ==
    run_at = "exited" /\ is_underflow
        => exception = "runtime_error" /\ exit_code = 20

(***************************************************************************)
(* C24: Model::get accepts a model definition only if every section has    *)
(* one resolution parameter specification and at least one line parameter  *)
(* specification and no section text is left without its end of section    *)
(* mark.                                                                   *)
(***************************************************************************)
C24_SectionBodies ==
    pc = "done" =>
        /\ \A s \in DOMAIN this_nli : this_nli[s] >= 1
        /\ ~unclosed

\* 1 / (1 / l0 + q * (mu^2 + 2 * mu) * factor) with mu = alpha * 10^-6
Modified(l0, q, alpha, factor) ==
    LET mu == Times(Whole(alpha), micro) IN
    Over(Whole(1),
         Plus(Over(Whole(1), Whole(l0)),
              Times(Times(Whole(q), Plus(Times(mu, mu), Times(Whole(2), mu))),
                    factor)))

(***************************************************************************)
(* C25, as stated: the many-multiplet profile computes its modified rest   *)
(* wavelength as 1 / (1/l0 + q * (mu^2 + 2 mu) * 10^-6) with               *)
(* mu = (delta alpha / alpha) * 10^-6, l0 = q[0], q = q[6] and             *)
(* delta alpha / alpha = q[7].                                             *)
(***************************************************************************)
C25_ModifiedWavelengthMicro ==
    profile.kind = "A_Doppler" /\ profile.q # <<>>
        => profile.u = Modified(profile.q.q0, profile.q.q6, profile.q.q7, micro)

(***************************************************************************)
(* C25, amended: the many-multiplet profile computes its modified rest     *)
(* wavelength as 1 / (1/l0 + q * (mu^2 + 2 mu) * 10^-8) with               *)
(* mu = (delta alpha / alpha) * 10^-6, l0 = q[0], q = q[6] and             *)
(* delta alpha / alpha = q[7].                                             *)
(***************************************************************************)
C25_ModifiedWavelength ==
    profile.kind = "A_Doppler" /\ profile.q # <<>>
        => profile.u = Modified(profile.q.q0, profile.q.q6, profile.q.q7,
                                Over(Whole(1), E08))

\* a many-multiplet profile whose rest wavelength is modified
C25_Witness ==
    /\ profile.kind = "A_Doppler"
    /\ profile.q # <<>>
    /\ profile.q.q6 # 0
    /\ profile.q.q7 # 0
    /\ profile.u # Whole(profile.q.q0)

\* the words after the calls of twist from the p-th on
RECURSIVE Twisted(_, _, _, _)
Twisted(T, words, calls, p) ==
    IF p > Len(calls) THEN words
    ELSE Twisted(T, twist(T, words, calls[p][1], calls[p][2], calls[p][3]), calls, p + 1)

\* the index, the words and the returned words of a constructed generator
\* are in their ranges, the index follows the count of the draws, and a
\* regeneration is a sequence of n calls of twist that write the words
\* 0 .. n - 1 in this order and read words 0 .. n - 1 only
IndexMachine ==
    gen.words # <<>> =>
        LET T == gen.type
            calls == regenerate_calls(T)
        IN  /\ gen.i \in 0..T.n
            /\ out = <<>> => gen.i = T.n
            /\ out # <<>> => gen.i = ((Len(out) - 1) % T.n) + 1
            /\ Len(gen.words) = T.n
            /\ \A p \in DOMAIN gen.words : gen.words[p] \in 0..(Pow2(T.w) - 1)
            /\ \A p \in DOMAIN out : out[p] \in 0..(Pow2(T.w) - 1)
            /\ Len(calls) = T.n
            /\ \A p \in DOMAIN calls :
                   /\ calls[p][2] = p - 1
                   /\ calls[p][1] \in 0..(T.n - 1)
                   /\ calls[p][3] \in 0..(T.n - 1)
            /\ regenerate(T, gen.words) = Twisted(T, gen.words, calls, 1)

\* a call of rand generates the words anew exactly when the index is n,
\* and leaves the index at 1 then
Regeneration ==
    gen.words # <<>> /\ gen'.words # <<>> /\ out' # out =>
        IF gen.i = gen.type.n
        THEN gen'.words = regenerate(gen.type, gen.words) /\ gen'.i = 1
        ELSE gen'.words = gen.words /\ gen'.i = gen.i + 1

(***************************************************************************)
(* C26: the index of a Mersenne Twister is n after construction and stays  *)
(* within 0 .. n; rand generates the state words anew exactly when the     *)
(* index is n, hence once in n draws, and leaves the index at 1; one       *)
(* regeneration writes each of the n state words once, in ascending order, *)
(* and reads words 0 .. n - 1 only; every state word and every returned    *)
(* word is below 2^w.                                                      *)
(***************************************************************************)
C26_IndexMachine == []IndexMachine /\ [][Regeneration]_vars

\* the words were generated anew a second time, n draws after the first
C26_Witness ==
    /\ gen.words # <<>>
    /\ Len(out) = gen.type.n + 1
    /\ gen.i = 1

(***************************************************************************)
(* C27: the cycle of a MELG generator is one of 1, 2, 3, 4 and its index   *)
(* is within 0 .. n - 1; the cycle is 1 iff index < n - m, 2 iff           *)
(* n - m <= index < n - l, 3 iff n - l <= index < n - 1, and 4 iff         *)
(* index = n - 1; a call of rand reads and writes words 0 .. n of the      *)
(* state only; and from cycle 1 and index 0 the generator is back at       *)
(* cycle 1 and index 0 after exactly n calls.                              *)
(***************************************************************************)
C27_CycleMachine ==
    melg # <<>> /\ melg.state # <<>> =>
        LET T == melg.type
        IN  /\ melg.cycle \in 1..4
            /\ melg.index \in 0..(T.n - 1)
            /\ melg.cycle = 1 <=> melg.index < T.n - T.m
            /\ melg.cycle = 2 <=> (T.n - T.m <= melg.index /\ melg.index < T.n - T.l)
            /\ melg.cycle = 3 <=> (T.n - T.l <= melg.index /\ melg.index < T.n - 1)
            /\ melg.cycle = 4 <=> melg.index = T.n - 1
            /\ melg.touched \subseteq 0..T.n
            /\ Len(melg.state) = T.n + 1
            /\ melg.index = melg.calls % T.n

\* the generator is back at cycle 1 and index 0, n calls after construction
C27_Witness ==
    /\ melg # <<>> /\ melg.state # <<>>
    /\ melg.calls = melg.type.n
    /\ melg.cycle = 1 /\ melg.index = 0
    /\ melg.touched # {}

\* the indices of the table section s takes: its resolution parameter and
\* its lines
Taken(s) == this_isc[s]..(this_isc[s] + this_nli[s] * ParameterCount)

(***************************************************************************)
(* C28: after a successful Model::get the arrays of values, bounds, mask   *)
(* flags and indices have the same length N; the resolution parameter of   *)
(* section s is at isc[s] and its nli[s] lines take the indices            *)
(* isc[s] + 1 .. isc[s] + nli[s] * parameter_count, all within 0 .. N - 1; *)
(* the indices of distinct sections are disjoint; and every line           *)
(* identifier is mapped to the first index of one such block of            *)
(* parameter_count elements.                                               *)
(***************************************************************************)
C28_TableLayout ==
    pc \in {"done", "set"} =>
        LET N == Len(this_val) IN
        /\ Len(this_err) = N /\ Len(this_lo) = N /\ Len(this_up) = N
        /\ Len(this_msk) = N /\ Len(this_ind) = N
        /\ Len(this_nli) = Len(this_isc)
        /\ \A s \in DOMAIN this_isc :
               /\ this_nli[s] >= 0
               /\ Taken(s) \subseteq 0..(N - 1)
               /\ text[this_isc[s] + 1].val = ValueAt(this_isc[s])
        /\ \A sid \in DOMAIN this_sim : this_sim[sid] + 1 \in DOMAIN this_isc
        /\ \A s, t \in DOMAIN this_isc : s # t => Taken(s) \cap Taken(t) = {}
        /\ \A id \in DOMAIN this_pim :
               \E s \in DOMAIN this_isc : \E q \in 0..(this_nli[s] - 1) :
                   this_pim[id] = this_isc[s] + 1 + q * ParameterCount

\* two sections, the first of them with a line, are assigned
C28_Witness ==
    /\ pc = "done"
    /\ Len(this_isc) = 2
    /\ this_nli[1] = 1
    /\ DOMAIN this_pim # {}

(***************************************************************************)
(* C30: a failing Model::get leaves the model as it was before the call:   *)
(* the sections, the values, uncertainties, bounds, mask flags, indices    *)
(* and both identifier maps are assigned on the success path only, so at   *)
(* every step of a failing call and after its error return they have the   *)
(* values they had before the call, and the stream is left failed.         *)
(***************************************************************************)
C30_FailingGetFrame ==
    /\ pc \notin {"done", "set"} =>
           /\ this_val = <<>> /\ this_err = <<>> /\ this_lo = <<>> /\ this_up = <<>>
           /\ this_msk = <<>> /\ this_ind = <<>>
           /\ this_isc = <<>> /\ this_nli = <<>>
           /\ this_sim = <<>> /\ this_pim = <<>>
    /\ pc = "failed" => is_fail

\* get has failed in dereferencing, with its local table read and indexed
C30_Witness ==
    /\ pc = "failed"
    /\ is_fail
    /\ ind # <<>>
    /\ Len(val) >= 2

\* the count of tokens of a record of the call, and whether the stream
\* holds the n records the call asks for
Width == reading.count + (IF reading.has_text THEN 1 ELSE 0)

Readable ==
    /\ reading.n * Width <= Len(reading.is.tokens)
    /\ \A p \in 1..(reading.n * Width) :
           reading.is.tokens[p] \/ (reading.has_text /\ p % Width = 0)

(***************************************************************************)
(* C29: a call of read is all or nothing.  If the n records are read with  *)
(* no failure of the stream, exactly n elements are appended to each       *)
(* target vector (append) or assigned to it (no append), the elements of   *)
(* the records in their order, so that the target vectors grow by the same *)
(* length; if the stream fails at a record, no target vector is modified.  *)
(***************************************************************************)
C29_AllOrNothing ==
    reading # <<>> /\ reading.called =>
        /\ reading.is.fail <=> ~Readable
        /\ IF ~reading.is.fail
           THEN \A j \in DOMAIN reading.targets :
                    LET kept == IF reading.append THEN reading.before[j] ELSE <<>>
                        new == SubSeq(reading.targets[j], Len(kept) + 1,
                                      Len(reading.targets[j]))
                    IN  /\ Len(reading.targets[j]) = Len(kept) + reading.n
                        /\ SubSeq(reading.targets[j], 1, Len(kept)) = kept
                        /\ \A i \in DOMAIN new :
                               new[i] \in {0, (i - 1) * Width + j}
                        /\ j <= reading.count =>
                               \A i \in DOMAIN new : new[i] = (i - 1) * Width + j
           ELSE reading.targets = reading.before

\* the stream has failed at the second of two records, and the vectors,
\* which held an element each, are as they were
C29_Witness ==
    /\ reading # <<>> /\ reading.called
    /\ reading.n = 2
    /\ reading.is.fail
    /\ reading.is.pos > Width
    /\ reading.before[1] # <<>>
    /\ reading.targets = reading.before

====
